---- MODULE Spec2Model ----
(***************************************************************************)
(* Orchestration pipeline of Probly: the /api/llm request handler          *)
(* (handleLLMRequest), the sandbox lifecycle (PyodideSandbox), the tool    *)
(* handlers, and the two-phase client (handleSend).                        *)
(*                                                                         *)
(* Every `await` of the source is a suspension point: the code between two *)
(* awaits is one action.  The language model, the sandbox runtime and the  *)
(* network are the environment: their outcomes are chosen with \E.         *)
(***************************************************************************)
EXTENDS Integers, Sequences, FiniteSets, TLC

\* Bound: number of text fragments the streamed completion may deliver.
MaxChunks == 2

\* Request 1 is the first /api/llm request of a turn, request 2 the second.
Req == {1, 2}

\* "llm"      : src/pages/api/llm.ts, tool branches inline
\* "handlers" : the same controller with the tool branches of toolHandlers
\* "stream"   : the streaming controller (first completion streamed)
ServerVersions == {"llm", "handlers", "stream"}

\* "select" : handleSend sending dataSelectionMode (selection timer 15 s)
\* "page"   : handleSend of src/app/page.tsx (timer 30 s)
ClientVersions == {"select", "page"}

ToolNames ==
  {"select_data_for_analysis", "analyze_spreadsheet_structure",
   "set_spreadsheet_cells", "create_chart", "execute_python_code",
   "get_sheet_info", "rename_sheet", "clear_sheet", "add_sheet",
   "remove_sheet", "document_analysis"}

SheetOpTools == {"rename_sheet", "clear_sheet", "add_sheet", "remove_sheet"}

\* What JSON.parse makes of toolCall.function.arguments:
\* "ok" parses with the fields present, "missing" parses without the
\* required fields, "unparsable" makes JSON.parse throw.
ArgKinds == {"ok", "missing", "unparsable"}

VARIABLES
  sver,      \* which controller source runs
  cver,      \* which handleSend source runs
  pc,        \* pc[r]: position of request r in handler/handleLLMRequest
  aborted,   \* aborted[r]: the flag set by res.on("close")
  connDown,  \* connDown[r]: the connection of request r is gone
  mode,      \* mode[r]: "select" (dataSelectionMode) or "analyze"
  doc,       \* doc[r]: length of documentImage of the request in MB, 0: none
  tool,      \* tool[r]: name of toolCalls[0], "none", or "pending"
  calls,     \* calls[r]: names of the tool calls of the tool-selection response
  ran,       \* ran[r]: names of the tool branches that were executed
  args,      \* args[r]: ArgKinds of toolCalls[0].function.arguments
  td,        \* td[r]: toolData
  exc,       \* exc[r]: an exception is propagating through the inner finally
  sb,        \* sb[r]: the sandbox of the request
  frames,    \* frames[r]: frames written with res.write, in order
  began,     \* began[r]: awaited operations begun, in order
  chunks,    \* chunks[r]: fragments taken from the completion stream
  run,       \* run[r]: how the code run ended: "none", "ok", "error", "timeout"
  cap,       \* cap[r]: what the code of request r printed before it ended
  sres,      \* sres[r]: the SandboxResult runDataAnalysis returned
  ended,     \* ended[r]: res.end() was called
  cpc,       \* position of handleSend
  ctrl,      \* abortController.current: "null" or "set"
  signal,    \* the signal of the turn's AbortController is aborted
  timer,     \* selection timer: "unset", "armed", "cleared", "fired"
  settledBy, \* what resolved the selection promise, "none" while pending
  result,    \* value the selection promise resolved with
  nread,     \* nread[r]: frames of request r the client has processed
  reading1,  \* the phase-1 reader loop is still running
  streamFailed, \* reader.read() of phase 1 rejected
  outcome,   \* how handleSend ended
  tpc,       \* tpc[t]: position of the handleSend call of turn t
  chatHistory,     \* chatHistory[t]: the ChatMessage of turn t
  abortController, \* abortController.current: 0 (null) or the turn that set it
  sheet,           \* the data of the active sheet: rows of cells
  selection,       \* the dataSelection being resolved, NoSelection before
  relevantData,    \* the slice of the sheet sent with the phase-2 request
  columnReference, \* the column letters sent with it, NoColumn if none
  context,         \* the renderings made of relevantData, oldest first
  cellUpdates,     \* the cell updates the last conversion returned
  sheets,          \* the sheet list of the SpreadsheetProvider
  activeSheetId,   \* the id of the active sheet
  sheetCount,      \* the number of sheets created so far: ids are 1, 2, ...
  handleSendSees,  \* the sheets and activeSheetId a running handleSend closed over
  py,              \* the fields pyodide and initialized of one PyodideSandbox
  act,             \* act[c]: the call c of a method of it and where it stands
  loads,           \* the runtimes loaded since the last destroy() completed
  running,         \* the calls whose Python code is executing in the runtime
  loop,            \* which read loop of handleSend reads the response
  wire,            \* the response as the server wrote it, in pieces of frames
  delivered,       \* how many pieces of it the reads have returned so far
  buffer,          \* the text the phase-1 loop keeps between two reads
  observed,        \* the frames the loop has parsed and handled, in order
  reader,          \* where the loop stands
  promise,         \* what resolved the promise of phase 1, "pending" before
  message          \* the ChatMessage of the turn as the loop has set it

srvVars == <<pc, aborted, connDown, mode, doc, tool, calls, ran, args, td, exc, sb,
             frames, began, chunks, run, cap, sres, ended>>
cliVars == <<cpc, ctrl, signal, timer, settledBy, result, nread, reading1,
             streamFailed, outcome>>
turnVars == <<tpc, chatHistory, abortController>>
dataVars == <<sheet, selection, relevantData, columnReference, context>>
sheetVars == <<sheets, activeSheetId, sheetCount, handleSendSees>>
pyVars == <<py, act, loads, running>>
readVars == <<loop, wire, delivered, buffer, observed, reader, promise, message>>
libVars == <<cellUpdates, sheetVars, pyVars, readVars>>
vars == <<sver, cver, srvVars, cliVars, turnVars, dataVars, libVars>>

----------------------------------------------------------------------------
(* Data *)

\* A selection descriptor as carried by dataSelectionResult.  present = FALSE
\* stands for an absent dataSelection.
NoDSR ==
  [present |-> FALSE, analysisType |-> "", selectionType |-> "",
   range |-> "", fallback |-> FALSE]

\* Descriptors the model may produce with well-formed arguments.
ModelDescriptors ==
  { [present |-> TRUE, analysisType |-> "statistical",
     selectionType |-> "range", range |-> "B2:D40", fallback |-> FALSE],
    [present |-> TRUE, analysisType |-> "trend",
     selectionType |-> "column", range |-> "", fallback |-> FALSE] }

\* args substituted when JSON.parse of the selection arguments throws.
ParseFallbackArgs ==
  [present |-> TRUE, analysisType |-> "custom", selectionType |-> "range",
   range |-> "A1:Z10", fallback |-> FALSE]

\* updates is "absent", "empty" ([]) or "some"; analysis tells whether the
\* object has an analysis field.
NoToolData ==
  [kind |-> "none", dsr |-> NoDSR, error |-> FALSE, updates |-> "absent",
   analysis |-> FALSE]

ToolData(k, d, e, u) ==
  [kind |-> k, dsr |-> d, error |-> e, updates |-> u, analysis |-> FALSE]

\* toolData = { response, updates, analysis: { goal, output, error } }
WithAnalysis(t) == [t EXCEPT !.analysis = TRUE]

\* toolData = { response: response }
TextToolData == ToolData("text", NoDSR, FALSE, "absent")

\* toolData set by the catch (toolError) around the tool branches.
ToolErrorData == ToolData("tool_error", NoDSR, TRUE, "absent")

\* toolData set by the catch of the execute_python_code branch.
PythonErrorData == ToolData("python_error", NoDSR, FALSE, "absent")

\* Frames.  streaming is "true", "false" or "absent" (no such field).
TextFrame(i) ==
  [streaming |-> "true", seq |-> i, kind |-> "text", dsr |-> NoDSR,
   error |-> FALSE, updates |-> "absent", analysis |-> FALSE]

FinalFrame(t) ==
  [streaming |-> "false", seq |-> 0, kind |-> t.kind, dsr |-> t.dsr,
   error |-> t.error, updates |-> t.updates, analysis |-> t.analysis]

PlainFrame ==
  [streaming |-> "false", seq |-> 0, kind |-> "text", dsr |-> NoDSR,
   error |-> FALSE, updates |-> "absent", analysis |-> FALSE]

ErrorFrame ==
  [streaming |-> "absent", seq |-> 0, kind |-> "error", dsr |-> NoDSR,
   error |-> TRUE, updates |-> "absent", analysis |-> FALSE]

\* A response that would deliver the newest frame first.
WriteFrameFirst(log, f) == <<f>> \o log

\* res.write appends a frame to the response.
WriteFrame(log, f) == Append(log, f)

\* A controller that would write without looking at the flag.
CanWriteAlways(r) == TRUE

\* The guard on every write of handleLLMRequest: `if (!aborted)`.
CanWrite(r) == ~aborted[r]

----------------------------------------------------------------------------
(* Sandbox *)

\* ref: the `sandbox` variable of handleLLMRequest is set; created: number
\* of constructions; destroyCalls: invocations of destroy(); completed:
\* invocations of destroy() that have returned; releases: those that found a
\* runtime to release; pyodide, initialized: the fields of PyodideSandbox.
\* id: identity of the instance the request holds, 0 for none.
NoSandbox ==
  [ref |-> FALSE, created |-> 0, destroyCalls |-> 0, completed |-> 0,
   releases |-> 0, pyodide |-> FALSE, initialized |-> FALSE, id |-> 0]

\* A controller whose instances are not distinct across requests.
SharedInstance == sb[1].created + 1

\* `new` constructs an object distinct from every object constructed
\* before: its identity is the number of constructions so far plus one.
NewInstance == sb[1].created + sb[2].created + 1

\* sandbox = new PyodideSandbox()
NewSandbox(s) ==
  [s EXCEPT !.ref = TRUE, !.created = @ + 1, !.id = NewInstance]

\* An initialize() that would resolve before the runtime is ready.
InitializePending(s) == [s EXCEPT !.pyodide = TRUE]

\* initialize(): ok sets pyodide and initialized; a failure may leave the
\* runtime loaded (loadPackagesFromImports threw) or not (loadPyodide threw).
InitializeOk(s) == [s EXCEPT !.pyodide = TRUE, !.initialized = TRUE]
InitializeFail(s, loaded) == [s EXCEPT !.pyodide = loaded]

\* destroy() is invoked.
DestroyCalled(s) == [s EXCEPT !.destroyCalls = @ + 1]

\* destroy() completes: the runtime is released and the fields are reset.
Destroyed(s) ==
  [s EXCEPT !.completed = @ + 1,
            !.releases = @ + (IF s.pyodide THEN 1 ELSE 0),
            !.pyodide = FALSE, !.initialized = FALSE]

\* A branch without the destroy of its finally.
InnerFinallySkipped(s) == FALSE

\* The inner finally of the execute_python_code branch: `if (sandbox)`.
InnerFinallyDestroys(s) == s.ref

\* The outer finally of handleLLMRequest: `if (sandbox)`.
OuterFinallyDestroys(s) == s.ref

\* A sandbox session is open from its construction until a destroy() has
\* returned.
SessionOpen(s) == s.created > 0 /\ s.completed = 0

\* What the Python code wrote to stdout and stderr before it ended, as the
\* chunks pushed by the batched handlers.
NoCapture == [out |-> << >>, err |-> << >>]
Captures == {NoCapture, [out |-> <<"partial">>, err |-> <<"warning">>]}

\* SandboxResult.  stdout and stderr are sequences of the pieces joined.
NoResult == [stdout |-> << >>, stderr |-> << >>, result |-> "none"]

\* runDataAnalysis after setup: the race of runPythonAsync with the timer.
\* The catch keeps stdout and replaces stderr by the error message.
RunDataAnalysis(how, c) ==
  IF how = "ok"
  THEN [stdout |-> c.out, stderr |-> c.err, result |-> "value"]
  ELSE [stdout |-> c.out,
        stderr |-> <<"Error in data analysis: ",
                     IF how = "timeout" THEN "Analysis timeout"
                                            ELSE "PythonError">>,
        result |-> "null"]


\* The turns of a conversation, in the order they are sent.
Turn == {1, 2}

\* A ChatMessage: its status, whether it carries updates or chart data, and
\* what its response text is; NoMessage before the turn is sent.
NoMessage == [status |-> "none", updates |-> FALSE, response |-> "none"]
NewMessage == [status |-> "pending", updates |-> FALSE, response |-> "empty"]

\* A column reference is the sequence of its letters, A = 1 ... Z = 26;
\* NoColumn stands for undefined.
NoColumn == << >>

\* No dataSelection has been resolved yet.
NoSelection == [selectionType |-> "none"]

----------------------------------------------------------------------------
\* The controller, the client and the turns before anything happened.
\* A sheet of the list; data is "empty" for the initial 2 x 2 grid of "".
Sheet(id, name, data) == [id |-> id, name |-> name, data |-> data]

\* The default name "Sheet k".
DefaultName(k) == <<"Sheet", k>>

NoClosure == [sheets |-> << >>, activeSheetId |-> 0]

\* The provider starts with the default sheet, which is active.
InitSheets ==
  /\ sheets = <<Sheet(1, DefaultName(1), "empty")>>
  /\ activeSheetId = 1
  /\ sheetCount = 1
  /\ handleSendSees = NoClosure

MaxPyCalls == 2
PyCall == 1..MaxPyCalls

\* A call of a method: op is the method, at the await it stands at, how the
\* way runDataAnalysis ended.
Idle == [op |-> "none", at |-> "idle", how |-> "none"]

\* A constructed PyodideSandbox: pyodide = null, initialized = false.
InitSandbox ==
  /\ py = [pyodide |-> FALSE, initialized |-> FALSE]
  /\ act = [c \in PyCall |-> Idle]
  /\ loads = 0
  /\ running = {}

\* The ChatMessage handleSend appends: response "", no updates, no chart,
\* status "pending".
NewTurnMessage ==
  [response |-> << >>, updates |-> FALSE, chart |-> FALSE, status |-> "pending"]

\* No response is being read.
InitReads ==
  /\ loop = "none"
  /\ wire = << >>
  /\ delivered = 0
  /\ buffer = << >>
  /\ observed = << >>
  /\ reader = "idle"
  /\ promise = "pending"
  /\ message = NewTurnMessage

\* No conversion has been made.
InitLib ==
  /\ cellUpdates = << >>
  /\ InitSheets
  /\ InitSandbox
  /\ InitReads

InitProgram ==
  /\ sver \in ServerVersions
  /\ cver \in ClientVersions
  /\ (sver = "stream" => cver = "page")
  /\ pc = [r \in Req |-> "idle"]
  /\ aborted = [r \in Req |-> FALSE]
  /\ connDown = [r \in Req |-> FALSE]
  /\ mode = [r \in Req |-> "analyze"]
  /\ doc = [r \in Req |-> 0]
  /\ tool = [r \in Req |-> "pending"]
  /\ calls = [r \in Req |-> << >>]
  /\ ran = [r \in Req |-> << >>]
  /\ args = [r \in Req |-> "ok"]
  /\ td = [r \in Req |-> NoToolData]
  /\ exc = [r \in Req |-> FALSE]
  /\ sb = [r \in Req |-> NoSandbox]
  /\ frames = [r \in Req |-> << >>]
  /\ began = [r \in Req |-> << >>]
  /\ chunks = [r \in Req |-> 0]
  /\ run = [r \in Req |-> "none"]
  /\ cap = [r \in Req |-> NoCapture]
  /\ sres = [r \in Req |-> NoResult]
  /\ ended = [r \in Req |-> FALSE]
  /\ cpc = "idle"
  /\ ctrl = "null"
  /\ signal = FALSE
  /\ timer = "unset"
  /\ settledBy = "none"
  /\ result = NoDSR
  /\ nread = [r \in Req |-> 0]
  /\ reading1 = FALSE
  /\ streamFailed = FALSE
  /\ outcome = "none"
  /\ tpc = [t \in Turn |-> "idle"]
  /\ chatHistory = [t \in Turn |-> NoMessage]
  /\ abortController = 0
  /\ InitLib

\* Nothing has been selected or rendered.
InitSelection ==
  /\ selection = NoSelection
  /\ relevantData = << >>
  /\ columnReference = NoColumn
  /\ context = << >>

Init ==
  /\ InitProgram
  /\ sheet = << >>
  /\ InitSelection

----------------------------------------------------------------------------
(* Server: handler and handleLLMRequest *)

Set(f, r, v) == [f EXCEPT ![r] = v]

\* The abort checks of handleLLMRequest, one per source line.
AbortedAfterCompletion(r) == aborted[r]
AbortedBeforeDispatch(r) == aborted[r]
AbortedAfterInit(r) == aborted[r]
AbortedAfterRun(r) == aborted[r]

\* The catch of handleLLMRequest: an {error} frame unless aborted.
Caught(r) ==
  IF CanWrite(r) THEN WriteFrame(frames[r], ErrorFrame) ELSE frames[r]

\* Leaving the try of handleLLMRequest with frames fr and sandbox s: the
\* outer finally destroys the sandbox when the variable is set.
Leave(r, fr, s) ==
  /\ frames' = Set(frames, r, fr)
  /\ IF OuterFinallyDestroys(s)
     THEN /\ sb' = Set(sb, r, DestroyCalled(s))
          /\ pc' = Set(pc, r, "d_outer")
     ELSE /\ sb' = Set(sb, r, s)
          /\ pc' = Set(pc, r, "done")

\* After the tool branches: the terminal frame is written unless aborted.
AfterDispatch(r, s, t) ==
  Leave(r, IF CanWrite(r) THEN WriteFrame(frames[r], FinalFrame(t))
                          ELSE frames[r], s)

\* The request was not sent by a turn of the client: its body and the
\* responses of the services it calls are arbitrary.  The requests of a
\* client turn are explored with one tool call per response and no captured
\* output.
RequestAlone == cpc = "idle"

\* Tool calls a response may carry after the first one.
ExtraCalls ==
  IF RequestAlone THEN {<< >>, <<"execute_python_code">>} ELSE {<< >>}

\* What the code may have printed when runDataAnalysis returns.
CaptureChoices == IF RequestAlone THEN Captures ELSE {NoCapture}

\* A dispatch that would run the branch of every proposed call.
DispatchedAll(q) == q

\* The calls whose branch is executed: `const toolCall = toolCalls[0]`.
Dispatched(q) == IF q = << >> THEN << >> ELSE <<q[1]>>

\* Tool names the tool-selection call can return.  In selection mode the
\* controller forces select_data_for_analysis with tool_choice.
ToolChoices(r) ==
  IF sver # "stream" /\ mode[r] = "select"
  THEN {"select_data_for_analysis", "none"}
  ELSE ToolNames \cup {"none"}

\* toolData of the branches that do not await.  kind "exception" stands for
\* an exception that leaves the branch uncaught.
SelectionData(a, d) ==
  IF a = "unparsable" THEN ToolData("selection", ParseFallbackArgs, FALSE, "absent")
  ELSE IF a = "missing" THEN ToolData("invalid_selection", NoDSR, TRUE, "absent")
  ELSE ToolData("selection", d, FALSE, "absent")

Exception == ToolData("exception", NoDSR, TRUE, "absent")

\* Branches of src/pages/api/llm.ts: JSON.parse is not guarded except for
\* the selection and structure tools; the exception reaches the toolError
\* catch.
InlineToolData(name, a, d) ==
  CASE name = "select_data_for_analysis" -> SelectionData(a, d)
    [] name = "analyze_spreadsheet_structure" ->
         ToolData("structure", NoDSR, FALSE, "absent")
    [] name = "set_spreadsheet_cells" ->
         IF a = "ok" THEN ToolData("updates", NoDSR, FALSE, "some")
         ELSE ToolErrorData
    [] name = "create_chart" ->
         IF a = "unparsable" THEN ToolErrorData
         ELSE ToolData("chart", NoDSR, FALSE, "absent")
    [] name = "get_sheet_info" -> ToolData("sheet_info", NoDSR, FALSE, "absent")
    [] name \in SheetOpTools ->
         IF a = "unparsable" THEN ToolErrorData
         ELSE ToolData("sheet_op", NoDSR, FALSE, "absent")
    [] OTHER -> TextToolData

\* Branches of the tool handlers: safeParseToolArgs substitutes a fallback.
HandlerToolData(name, a, d) ==
  CASE name = "select_data_for_analysis" -> SelectionData(a, d)
    [] name = "analyze_spreadsheet_structure" ->
         ToolData("structure", NoDSR, FALSE, "absent")
    [] name = "set_spreadsheet_cells" ->
         IF a = "ok" THEN ToolData("updates", NoDSR, FALSE, "some")
         ELSE IF a = "unparsable" THEN ToolData("updates", NoDSR, FALSE, "empty")
         ELSE ToolErrorData
    [] name = "create_chart" -> ToolData("chart", NoDSR, FALSE, "absent")
    [] OTHER -> InlineToolData(name, a, d)

\* Branches of the streaming controller: no catch around the branches.
StreamToolData(name, a, d) ==
  CASE name = "set_spreadsheet_cells" ->
         IF a = "ok" THEN ToolData("updates", NoDSR, FALSE, "some")
         ELSE Exception
    [] name = "create_chart" ->
         IF a = "ok" THEN ToolData("chart", NoDSR, FALSE, "absent")
         ELSE Exception
    [] OTHER -> TextToolData

SyncToolData(name, a, d) ==
  CASE sver = "llm" -> InlineToolData(name, a, d)
    [] sver = "handlers" -> HandlerToolData(name, a, d)
    [] OTHER -> StreamToolData(name, a, d)

\* maxSize of the handler and sizeLimit of the body parser of the route,
\* in MB.
MaxSize == 10
SizeLimit == 10

\* Math.ceil((documentImage.length * 3) / 4)
Base64Size(len) == (len * 3 + 3) \div 4

\* `if (documentImage) { ... if (base64Size > maxSize)`
TooBig(len) == len # 0 /\ Base64Size(len) > MaxSize

\* The body parser of the route refuses a body longer than sizeLimit before
\* handler is called; the body is at least as long as the document in it.
BodyExceedsLimit(len) == len > SizeLimit

\* Lengths of the document of a request: none, at the limit of the body
\* parser, just above it, and the shortest whose decoded size is above
\* maxSize.
DocLengths == {0, SizeLimit, SizeLimit + 1, (MaxSize * 4) \div 3 + 1}

\* The request never reaches handler.
Refused(r) == sver # "stream" /\ BodyExceedsLimit(doc[r])

\* POST /api/llm.  The body parser answers a body over its limit itself (a
\* 413 response without frames) and handler does not run.  handler rejects
\* an oversized document with an {error} frame and res.end(); otherwise
\* handleLLMRequest registers the close listener and begins the first
\* completion call.  The streaming controller takes no document.
Handler(r) ==
  /\ pc[r] = "received"
  /\ IF Refused(r)
     THEN /\ ended' = Set(ended, r, TRUE)
          /\ pc' = Set(pc, r, "done")
          /\ UNCHANGED <<frames, began>>
     ELSE IF sver # "stream" /\ TooBig(doc[r])
     THEN /\ frames' = Set(frames, r, WriteFrame(frames[r], ErrorFrame))
          /\ ended' = Set(ended, r, TRUE)
          /\ pc' = Set(pc, r, "done")
          /\ UNCHANGED began
     ELSE /\ began' = Set(began, r, Append(began[r], "completion"))
          /\ pc' = Set(pc, r, IF sver = "stream" THEN "await_stream"
                                                 ELSE "await_completion")
          /\ UNCHANGED <<frames, ended>>
  /\ UNCHANGED <<sver, cver, turnVars, dataVars, libVars, aborted, connDown, mode, doc, tool, calls, ran, args, td,
                 exc, sb, chunks, run, cap, sres, cliVars>>

\* res.on("close"): the listener sets aborted.
Close(r) ==
  /\ pc[r] \notin {"idle", "received", "done"}
  /\ connDown[r]
  /\ ~aborted[r]
  /\ aborted' = Set(aborted, r, TRUE)
  /\ UNCHANGED <<sver, cver, turnVars, dataVars, libVars, pc, connDown, mode, doc, tool, calls, ran, args, td, exc,
                 sb, frames, began, chunks, run, cap, sres, ended, cliVars>>

\* The connection of a request is lost (network, tab closed).
NetDrop(r) ==
  /\ pc[r] \notin {"idle", "done"}
  /\ ~connDown[r]
  /\ connDown' = Set(connDown, r, TRUE)
  /\ UNCHANGED <<sver, cver, turnVars, dataVars, libVars, pc, aborted, mode, doc, tool, calls, ran, args, td, exc,
                 sb, frames, began, chunks, run, cap, sres, ended, cliVars>>

\* The first (non-streaming) completion call settles.
CompletionReturns(r) ==
  /\ pc[r] = "await_completion"
  /\ \E ok \in BOOLEAN :
       IF ~ok THEN Leave(r, Caught(r), sb[r]) /\ UNCHANGED began
       ELSE IF AbortedAfterCompletion(r)
            THEN Leave(r, frames[r], sb[r]) /\ UNCHANGED began
            ELSE /\ began' = Set(began, r, Append(began[r], "tool_completion"))
                 /\ pc' = Set(pc, r, "await_tool")
                 /\ UNCHANGED <<frames, sb>>
  /\ UNCHANGED <<sver, cver, turnVars, dataVars, libVars, aborted, connDown, mode, doc, tool, calls, ran, args, td,
                 exc, chunks, run, cap, sres, ended, cliVars>>

\* Streaming controller: the streamed completion call opens.
StreamOpens(r) ==
  /\ pc[r] = "await_stream"
  /\ \E ok \in BOOLEAN :
       IF ~ok THEN Leave(r, Caught(r), sb[r])
       ELSE /\ pc' = Set(pc, r, "streaming")
            /\ UNCHANGED <<frames, sb>>
  /\ UNCHANGED <<sver, cver, turnVars, dataVars, libVars, aborted, connDown, mode, doc, tool, calls, ran, args, td,
                 exc, began, chunks, run, cap, sres, ended, cliVars>>

\* Streaming controller: one chunk of the for-await loop.  A chunk with
\* content is written as a streaming frame carrying its generation index.
StreamChunk(r) ==
  /\ pc[r] = "streaming"
  /\ chunks[r] < MaxChunks
  /\ IF aborted[r]
     THEN Leave(r, frames[r], sb[r]) /\ UNCHANGED chunks
     ELSE /\ chunks' = Set(chunks, r, chunks[r] + 1)
          /\ \E content \in BOOLEAN :
               frames' = Set(frames, r,
                             IF content
                             THEN WriteFrame(frames[r], TextFrame(chunks[r] + 1))
                             ELSE frames[r])
          /\ UNCHANGED <<pc, sb>>
  /\ UNCHANGED <<sver, cver, turnVars, dataVars, libVars, aborted, connDown, mode, doc, tool, calls, ran, args, td,
                 exc, began, run, cap, sres, ended, cliVars>>

\* Streaming controller: the stream ends (or fails); the tool-selection
\* call begins unless aborted.
StreamEnds(r) ==
  /\ pc[r] = "streaming"
  /\ \E ok \in BOOLEAN :
       IF ~ok THEN Leave(r, Caught(r), sb[r]) /\ UNCHANGED began
       ELSE IF aborted[r]
            THEN Leave(r, frames[r], sb[r]) /\ UNCHANGED began
            ELSE /\ began' = Set(began, r, Append(began[r], "tool_completion"))
                 /\ pc' = Set(pc, r, "await_tool")
                 /\ UNCHANGED <<frames, sb>>
  /\ UNCHANGED <<sver, cver, turnVars, dataVars, libVars, aborted, connDown, mode, doc, tool, calls, ran, args, td,
                 exc, chunks, run, cap, sres, ended, cliVars>>

\* The tool-selection call throws.
ToolCompletionFails(r) ==
  /\ pc[r] = "await_tool"
  /\ Leave(r, Caught(r), sb[r])
  /\ UNCHANGED <<sver, cver, turnVars, dataVars, libVars, aborted, connDown, mode, doc, tool, calls, ran, args, td,
                 exc, began, chunks, run, cap, sres, ended, cliVars>>

\* The tool-selection call returns while aborted: return.
ToolCompletionAborted(r) ==
  /\ pc[r] = "await_tool"
  /\ AbortedBeforeDispatch(r)
  /\ \E name \in ToolChoices(r) :
       /\ tool' = Set(tool, r, name)
       /\ \E x \in ExtraCalls :
            calls' = Set(calls, r, IF name = "none" THEN << >> ELSE <<name>> \o x)
       /\ UNCHANGED ran
  /\ Leave(r, frames[r], sb[r])
  /\ UNCHANGED <<sver, cver, turnVars, dataVars, libVars, aborted, connDown, mode, doc, args, td,
                 exc, began, chunks, run, cap, sres, ended, cliVars>>

\* No tool call: the text response is the terminal frame.
NoToolCall(r) ==
  /\ pc[r] = "await_tool"
  /\ ~AbortedBeforeDispatch(r)
  /\ tool' = Set(tool, r, "none")
  /\ UNCHANGED <<calls, ran>>
  /\ Leave(r, IF CanWrite(r) THEN WriteFrame(frames[r], PlainFrame)
                             ELSE frames[r], sb[r])
  /\ UNCHANGED <<sver, cver, turnVars, dataVars, libVars, aborted, connDown, mode, doc, args, td,
                 exc, began, chunks, run, cap, sres, ended, cliVars>>

\* toolCalls[0] names a tool whose branch does not await.
DispatchSync(r) ==
  /\ pc[r] = "await_tool"
  /\ ~AbortedBeforeDispatch(r)
  /\ \E name \in ToolChoices(r) \ {"none", "execute_python_code"},
        a \in ArgKinds, d \in ModelDescriptors :
       /\ name = "document_analysis" => sver = "stream"
       /\ tool' = Set(tool, r, name)
       /\ \E x \in ExtraCalls : calls' = Set(calls, r, <<name>> \o x)
       /\ ran' = Set(ran, r, Dispatched(calls'[r]))
       /\ args' = Set(args, r, a)
       /\ LET t == SyncToolData(name, a, d) IN
            IF t.kind = "exception"
            THEN Leave(r, Caught(r), sb[r]) /\ UNCHANGED td
            ELSE td' = Set(td, r, t) /\ AfterDispatch(r, sb[r], t)
  /\ UNCHANGED <<sver, cver, turnVars, dataVars, libVars, aborted, connDown, mode, doc,
                 exc, began, chunks, run, cap, sres, ended, cliVars>>

----------------------------------------------------------------------------
(* execute_python_code, inline in handleLLMRequest *)

\* The inner finally of the branch, entered with sandbox s and toolData t.
InnerFinally(r, s, t) ==
  /\ td' = Set(td, r, t)
  /\ IF InnerFinallyDestroys(s)
     THEN /\ sb' = Set(sb, r, DestroyCalled(s))
          /\ pc' = Set(pc, r, "d_fin")
          /\ UNCHANGED frames
     ELSE AfterDispatch(r, s, t)

\* `if (aborted) { await sandbox.destroy(); return; }`
AbortDestroy(r, s) ==
  /\ sb' = Set(sb, r, DestroyCalled(s))
  /\ pc' = Set(pc, r, "d_abort")
  /\ UNCHANGED <<frames, td>>

\* The branch is entered: the sandbox is created and initialize() begins.
DispatchPython(r) ==
  /\ pc[r] = "await_tool"
  /\ sver = "llm"
  /\ "execute_python_code" \in ToolChoices(r)
  /\ ~AbortedBeforeDispatch(r)
  /\ \E a \in ArgKinds : args' = Set(args, r, a)
  /\ tool' = Set(tool, r, "execute_python_code")
  /\ \E x \in ExtraCalls : calls' = Set(calls, r, <<"execute_python_code">> \o x)
  /\ ran' = Set(ran, r, Dispatched(calls'[r]))
  /\ td' = Set(td, r, TextToolData)
  /\ sb' = Set(sb, r, NewSandbox(sb[r]))
  /\ began' = Set(began, r, Append(began[r], "sandbox_initialize"))
  /\ pc' = Set(pc, r, "await_init")
  /\ UNCHANGED <<sver, cver, turnVars, dataVars, libVars, aborted, connDown, mode, doc, exc, frames,
                 chunks, run, cap, sres, ended, cliVars>>

\* initialize() settles; the arguments are parsed; runDataAnalysis begins
\* unless aborted.
InitReturns(r) ==
  /\ pc[r] = "await_init"
  /\ \E ok \in BOOLEAN, loaded \in BOOLEAN :
       IF ~ok
       THEN InnerFinally(r, InitializeFail(sb[r], loaded), PythonErrorData)
            /\ UNCHANGED began
       ELSE IF args[r] = "unparsable"
       THEN InnerFinally(r, InitializeOk(sb[r]), PythonErrorData)
            /\ UNCHANGED began
       ELSE IF AbortedAfterInit(r)
       THEN AbortDestroy(r, InitializeOk(sb[r])) /\ UNCHANGED began
       ELSE /\ sb' = Set(sb, r, InitializeOk(sb[r]))
            /\ began' = Set(began, r, Append(began[r], "sandbox_execute"))
            /\ pc' = Set(pc, r, "await_run")
            /\ UNCHANGED <<frames, td>>
  /\ UNCHANGED <<sver, cver, turnVars, dataVars, libVars, aborted, connDown, mode, doc, tool, calls, ran, args, exc,
                 chunks, run, cap, sres, ended, cliVars>>

\* runDataAnalysis settles (it returns a result also on a Python error and
\* on the timeout); structureAnalysisOutput begins unless aborted.
RunReturns(r) ==
  /\ pc[r] = "await_run"
  /\ \E out \in {"ok", "error", "timeout"}, c \in CaptureChoices :
       /\ run' = Set(run, r, out)
       /\ cap' = Set(cap, r, c)
       /\ sres' = Set(sres, r, RunDataAnalysis(out, c))
  /\ IF AbortedAfterRun(r)
     THEN AbortDestroy(r, sb[r]) /\ UNCHANGED began
     ELSE /\ began' = Set(began, r, Append(began[r], "structure_output"))
          /\ pc' = Set(pc, r, "await_structure")
          /\ UNCHANGED <<frames, td, sb>>
  /\ UNCHANGED <<sver, cver, turnVars, dataVars, libVars, aborted, connDown, mode, doc, tool, calls, ran, args, exc,
                 chunks, ended, cliVars>>

\* structureAnalysisOutput settles; generateCellUpdates builds the updates.
StructureReturns(r) ==
  /\ pc[r] = "await_structure"
  /\ \E ok \in BOOLEAN :
       InnerFinally(r, sb[r],
                    IF ok /\ args[r] = "ok"
                    THEN ToolData("python", NoDSR, FALSE, "some")
                    ELSE PythonErrorData)
  /\ UNCHANGED <<sver, cver, turnVars, dataVars, libVars, aborted, connDown, mode, doc, tool, calls, ran, args, exc,
                 began, chunks, run, cap, sres, ended, cliVars>>

\* destroy() of the aborted path completes; the return runs the inner
\* finally.
DestroyAbort(r) ==
  /\ pc[r] = "d_abort"
  /\ LET s == Destroyed(sb[r]) IN
       IF InnerFinallyDestroys(s)
       THEN /\ sb' = Set(sb, r, DestroyCalled(s))
            /\ pc' = Set(pc, r, "d_fin_ret")
            /\ UNCHANGED frames
       ELSE Leave(r, frames[r], s)
  /\ UNCHANGED <<sver, cver, turnVars, dataVars, libVars, aborted, connDown, mode, doc, tool, calls, ran, args, td,
                 exc, began, chunks, run, cap, sres, ended, cliVars>>

\* The streaming controller sets sandbox = null after the kill of its inner
\* finally; llm.ts keeps the variable.
AfterInnerDestroy(s) ==
  IF sver = "stream" THEN [Destroyed(s) EXCEPT !.ref = FALSE] ELSE Destroyed(s)

\* destroy() of the inner finally completes while returning.
DestroyFinRet(r) ==
  /\ pc[r] = "d_fin_ret"
  /\ Leave(r, frames[r], AfterInnerDestroy(sb[r]))
  /\ UNCHANGED <<sver, cver, turnVars, dataVars, libVars, aborted, connDown, mode, doc, tool, calls, ran, args, td,
                 exc, began, chunks, run, cap, sres, ended, cliVars>>

\* destroy() of the inner finally completes; the dispatch step is over.
DestroyFin(r) ==
  /\ pc[r] = "d_fin"
  /\ IF exc[r]
     THEN Leave(r, Caught(r), AfterInnerDestroy(sb[r]))
     ELSE AfterDispatch(r, AfterInnerDestroy(sb[r]), td[r])
  /\ UNCHANGED <<sver, cver, turnVars, dataVars, libVars, aborted, connDown, mode, doc, tool, calls, ran, args, td,
                 exc, began, chunks, run, cap, sres, ended, cliVars>>

\* destroy() of the outer finally completes.
DestroyOuter(r) ==
  /\ pc[r] = "d_outer"
  /\ sb' = Set(sb, r, Destroyed(sb[r]))
  /\ pc' = Set(pc, r, "done")
  /\ UNCHANGED <<sver, cver, turnVars, dataVars, libVars, aborted, connDown, mode, doc, tool, calls, ran, args, td,
                 exc, frames, began, chunks, run, cap, sres, ended, cliVars>>

----------------------------------------------------------------------------
(* execute_python_code in the tool handlers: handlePythonCodeTool *)

\* The finally of handlePythonCodeTool: `if (sandbox)`.
HandlerFinallyDestroys(s) == s.created > 0

HandlerFinally(r, s, t) ==
  /\ td' = Set(td, r, t)
  /\ IF HandlerFinallyDestroys(s)
     THEN /\ sb' = Set(sb, r, DestroyCalled(s))
          /\ pc' = Set(pc, r, "h_destroy")
          /\ UNCHANGED frames
     ELSE AfterDispatch(r, s, t)

\* handlePythonCodeTool is called: its own sandbox variable is set (the
\* controller's stays null) and initialize() begins.
HandlerPython(r) ==
  /\ pc[r] = "await_tool"
  /\ sver = "handlers"
  /\ "execute_python_code" \in ToolChoices(r)
  /\ ~AbortedBeforeDispatch(r)
  /\ \E a \in ArgKinds : args' = Set(args, r, a)
  /\ tool' = Set(tool, r, "execute_python_code")
  /\ \E x \in ExtraCalls : calls' = Set(calls, r, <<"execute_python_code">> \o x)
  /\ ran' = Set(ran, r, Dispatched(calls'[r]))
  /\ td' = Set(td, r, TextToolData)
  /\ sb' = Set(sb, r, [NewSandbox(sb[r]) EXCEPT !.ref = FALSE])
  /\ began' = Set(began, r, Append(began[r], "sandbox_initialize"))
  /\ pc' = Set(pc, r, "h_init")
  /\ UNCHANGED <<sver, cver, turnVars, dataVars, libVars, aborted, connDown, mode, doc, exc, frames,
                 chunks, run, cap, sres, ended, cliVars>>

\* initialize() settles; safeParseToolArgs; runDataAnalysis begins.
HandlerInitReturns(r) ==
  /\ pc[r] = "h_init"
  /\ \E ok \in BOOLEAN, loaded \in BOOLEAN :
       IF ~ok
       THEN HandlerFinally(r, InitializeFail(sb[r], loaded), PythonErrorData)
            /\ UNCHANGED began
       ELSE /\ sb' = Set(sb, r, InitializeOk(sb[r]))
            /\ began' = Set(began, r, Append(began[r], "sandbox_execute"))
            /\ pc' = Set(pc, r, "h_run")
            /\ UNCHANGED <<frames, td>>
  /\ UNCHANGED <<sver, cver, turnVars, dataVars, libVars, aborted, connDown, mode, doc, tool, calls, ran, args, exc,
                 chunks, run, cap, sres, ended, cliVars>>

\* runDataAnalysis settles; structureAnalysisOutput begins.
HandlerRunReturns(r) ==
  /\ pc[r] = "h_run"
  /\ \E out \in {"ok", "error", "timeout"}, c \in CaptureChoices :
       /\ run' = Set(run, r, out)
       /\ cap' = Set(cap, r, c)
       /\ sres' = Set(sres, r, RunDataAnalysis(out, c))
  /\ began' = Set(began, r, Append(began[r], "structure_output"))
  /\ pc' = Set(pc, r, "h_structure")
  /\ UNCHANGED <<sver, cver, turnVars, dataVars, libVars, aborted, connDown, mode, doc, tool, calls, ran, args, td,
                 exc, sb, frames, chunks, ended, cliVars>>

\* structureAnalysisOutput settles.  start_cell is undefined when the
\* arguments parse without it, and generateCellUpdates throws.
HandlerStructureReturns(r) ==
  /\ pc[r] = "h_structure"
  /\ \E ok \in BOOLEAN :
       HandlerFinally(r, sb[r],
                      IF ok /\ args[r] # "missing"
                      THEN ToolData("python", NoDSR, FALSE, "some")
                      ELSE PythonErrorData)
  /\ UNCHANGED <<sver, cver, turnVars, dataVars, libVars, aborted, connDown, mode, doc, tool, calls, ran, args, exc,
                 began, chunks, run, cap, sres, ended, cliVars>>

\* destroy() of the handler's finally completes; the handler returns.
HandlerDestroy(r) ==
  /\ pc[r] = "h_destroy"
  /\ AfterDispatch(r, Destroyed(sb[r]), td[r])
  /\ UNCHANGED <<sver, cver, turnVars, dataVars, libVars, aborted, connDown, mode, doc, tool, calls, ran, args, td,
                 exc, began, chunks, run, cap, sres, ended, cliVars>>

----------------------------------------------------------------------------
(* execute_python_code in the streaming controller (remote sandbox) *)

\* An exception in the inner try: the inner finally kills the sandbox and
\* the exception reaches the catch of handleLLMRequest.
InnerThrow(r, s) ==
  /\ exc' = Set(exc, r, TRUE)
  /\ InnerFinally(r, s, td[r])

StreamPython(r) ==
  /\ pc[r] = "await_tool"
  /\ sver = "stream"
  /\ ~AbortedBeforeDispatch(r)
  /\ \E a \in ArgKinds : args' = Set(args, r, a)
  /\ tool' = Set(tool, r, "execute_python_code")
  /\ \E x \in ExtraCalls : calls' = Set(calls, r, <<"execute_python_code">> \o x)
  /\ ran' = Set(ran, r, Dispatched(calls'[r]))
  /\ td' = Set(td, r, TextToolData)
  /\ began' = Set(began, r, Append(began[r], "sandbox_create"))
  /\ pc' = Set(pc, r, "await_create")
  /\ UNCHANGED <<sver, cver, turnVars, dataVars, libVars, aborted, connDown, mode, doc, exc, sb, frames,
                 chunks, run, cap, sres, ended, cliVars>>

\* Sandbox.create() settles; the arguments are parsed; files.write begins.
CreateReturns(r) ==
  /\ pc[r] = "await_create"
  /\ \E ok \in BOOLEAN :
       IF ~ok
       THEN Leave(r, Caught(r), sb[r]) /\ UNCHANGED <<began, exc, td>>
       ELSE LET s == InitializeOk(NewSandbox(sb[r])) IN
            IF args[r] = "unparsable"
            THEN InnerThrow(r, s) /\ UNCHANGED began
            ELSE IF aborted[r]
            THEN AbortDestroy(r, s) /\ UNCHANGED <<began, exc>>
            ELSE /\ sb' = Set(sb, r, s)
                 /\ began' = Set(began, r, Append(began[r], "sandbox_write"))
                 /\ pc' = Set(pc, r, "await_fwrite")
                 /\ UNCHANGED <<frames, td, exc>>
  /\ UNCHANGED <<sver, cver, turnVars, dataVars, libVars, aborted, connDown, mode, doc, tool, calls, ran, args,
                 chunks, run, cap, sres, ended, cliVars>>

\* files.write settles; runCode begins.
FileWriteReturns(r) ==
  /\ pc[r] = "await_fwrite"
  /\ \E ok \in BOOLEAN :
       IF ~ok THEN InnerThrow(r, sb[r]) /\ UNCHANGED began
       ELSE IF aborted[r]
       THEN AbortDestroy(r, sb[r]) /\ UNCHANGED <<began, exc>>
       ELSE /\ began' = Set(began, r, Append(began[r], "sandbox_execute"))
            /\ pc' = Set(pc, r, "await_runcode")
            /\ UNCHANGED <<frames, td, exc, sb>>
  /\ UNCHANGED <<sver, cver, turnVars, dataVars, libVars, aborted, connDown, mode, doc, tool, calls, ran, args,
                 chunks, run, cap, sres, ended, cliVars>>

\* runCode settles; files.read begins.
RunCodeReturns(r) ==
  /\ pc[r] = "await_runcode"
  /\ \E out \in {"ok", "error", "timeout"} :
       /\ run' = Set(run, r, out)
       /\ UNCHANGED <<cap, sres>>
       /\ IF out = "timeout" THEN InnerThrow(r, sb[r]) /\ UNCHANGED began
          ELSE IF aborted[r]
          THEN AbortDestroy(r, sb[r]) /\ UNCHANGED <<began, exc>>
          ELSE /\ began' = Set(began, r, Append(began[r], "sandbox_read"))
               /\ pc' = Set(pc, r, "await_fread")
               /\ UNCHANGED <<frames, td, exc, sb>>
  /\ UNCHANGED <<sver, cver, turnVars, dataVars, libVars, aborted, connDown, mode, doc, tool, calls, ran, args,
                 chunks, ended, cliVars>>

\* files.read settles; the output rows become the updates.
FileReadReturns(r) ==
  /\ pc[r] = "await_fread"
  /\ \E ok \in BOOLEAN :
       IF ok /\ args[r] = "ok"
       THEN InnerFinally(r, sb[r],
                         WithAnalysis(ToolData("python", NoDSR, FALSE, "some")))
            /\ UNCHANGED exc
       ELSE InnerThrow(r, sb[r])
  /\ UNCHANGED <<sver, cver, turnVars, dataVars, libVars, aborted, connDown, mode, doc, tool, calls, ran, args,
                 began, chunks, run, cap, sres, ended, cliVars>>

----------------------------------------------------------------------------
(* document_analysis *)

\* A document branch that would not look for the document.
DocumentNeverMissing(d) == FALSE

\* `if (!documentImage)`: no document is attached to the request.
DocumentMissing(d) == d = 0

\* The branch is entered.  llm.ts parses with JSON.parse (toolError on a
\* throw); the handler checks the document first and parses with
\* safeParseToolArgs.  analyzeDocumentWithVision begins when a document and
\* an operation are there.
DispatchDocument(r) ==
  /\ pc[r] = "await_tool"
  /\ sver # "stream"
  /\ "document_analysis" \in ToolChoices(r)
  /\ ~AbortedBeforeDispatch(r)
  /\ tool' = Set(tool, r, "document_analysis")
  /\ \E x \in ExtraCalls : calls' = Set(calls, r, <<"document_analysis">> \o x)
  /\ ran' = Set(ran, r, Dispatched(calls'[r]))
  /\ \E a \in ArgKinds :
       /\ args' = Set(args, r, a)
       /\ LET early ==
                IF sver = "llm" /\ a = "unparsable" THEN ToolErrorData
                ELSE IF DocumentMissing(doc[r])
                THEN ToolData("doc_missing", NoDSR, FALSE, "absent")
                ELSE IF a = "missing"
                THEN ToolData("doc_error", NoDSR, FALSE, "absent")
                ELSE NoToolData
          IN IF early.kind # "none"
             THEN /\ td' = Set(td, r, early)
                  /\ AfterDispatch(r, sb[r], early)
                  /\ UNCHANGED began
             ELSE /\ td' = Set(td, r, TextToolData)
                  /\ began' = Set(began, r, Append(began[r], "vision"))
                  /\ pc' = Set(pc, r, "await_vision")
                  /\ UNCHANGED <<frames, sb>>
  /\ UNCHANGED <<sver, cver, turnVars, dataVars, libVars, aborted, connDown, mode, doc, exc,
                 chunks, run, cap, sres, ended, cliVars>>

\* analyzeDocumentWithVision settles.
VisionReturns(r) ==
  /\ pc[r] = "await_vision"
  /\ \E ok \in BOOLEAN :
       LET t == IF ok THEN ToolData("doc", NoDSR, FALSE, "some")
                ELSE ToolData("doc_error", NoDSR, FALSE, "absent")
       IN td' = Set(td, r, t) /\ AfterDispatch(r, sb[r], t)
  /\ UNCHANGED <<sver, cver, turnVars, dataVars, libVars, aborted, connDown, mode, doc, tool, calls, ran, args, exc,
                 began, chunks, run, cap, sres, ended, cliVars>>

----------------------------------------------------------------------------
(* Client: handleSend and handleStop *)

\* The descriptor the selection promise falls back to.  The "select" client
\* resolves a default range with analysisType "summary"; the client of
\* src/app/page.tsx resolves { fallback: true, response } with no
\* dataSelection.
FallbackDescriptor ==
  IF cver = "select"
  THEN [present |-> TRUE, analysisType |-> "summary",
        selectionType |-> "range", range |-> "A1:Z20", fallback |-> TRUE]
  ELSE [NoDSR EXCEPT !.fallback = TRUE]

\* resolve(v): the first resolution wins.
Resolve(by, v) ==
  IF settledBy = "none"
  THEN settledBy' = by /\ result' = v
  ELSE UNCHANGED <<settledBy, result>>

\* A client that would not wait for the selection promise.
PromiseNotAwaited == TRUE

\* `const dataSelectionResult = await selectionPromise` resumes.
PromiseSettled == settledBy # "none"

\* A client that would not look at the signal after phase 1.
AbortNeverObserved == FALSE

\* `if (abortController.current.signal.aborted) throw`; after handleStop
\* abortController.current is null and the read of .signal throws.
AbortObserved == ctrl = "null" \/ signal

\* src/app/page.tsx: `if (result && result.dataSelection)`; the "select"
\* client: `if (dataSelectionResult)`, always taken.
ProceedWithSelection(v) == IF cver = "page" THEN v.present ELSE TRUE

\* Which frames resolve the selection promise of phase 1, and with what.
\* "select": only a frame with dataSelectionResult.  "page": also frames
\* with updates, chartData, sheetOperation or a response; an error frame
\* throws inside the loop and is skipped.
FrameResolves(f) ==
  IF f.dsr.present THEN TRUE
  ELSE IF cver = "select" THEN FALSE
  ELSE \/ f.updates # "absent"
       \/ f.kind \in {"chart", "sheet_op"}
       \/ ~f.error

\* handleSend: the turn begins, the AbortController is created and the
\* first request is sent.
Send ==
  /\ cpc = "idle"
  /\ ctrl' = "set"
  /\ cpc' = "fetch1"
  /\ \E d \in DocLengths : doc' = Set(doc, 1, d)
  /\ mode' = Set(mode, 1, IF cver = "select" THEN "select" ELSE "analyze")
  /\ pc' = Set(pc, 1, "received")
  /\ UNCHANGED <<sver, cver, turnVars, dataVars, libVars, aborted, connDown, tool, calls, ran, args, td, exc, sb,
                 frames, began, chunks, run, cap, sres, ended, signal, timer, settledBy,
                 result, nread, reading1, streamFailed, outcome>>

\* handleStop: abort() and abortController.current = null.  The connections
\* of the requests in flight go down.
Stop ==
  /\ ctrl = "set"
  /\ signal' = TRUE
  /\ ctrl' = "null"
  /\ connDown' = [r \in Req |-> connDown[r] \/ pc[r] # "idle"]
  /\ UNCHANGED <<sver, cver, turnVars, dataVars, libVars, pc, aborted, mode, doc, tool, calls, ran, args, td, exc, sb,
                 frames, began, chunks, run, cap, sres, ended, cpc, timer, settledBy,
                 result, nread, reading1, streamFailed, outcome>>

\* What a rejected fetch or reader.read() throws: an AbortError when the
\* signal of the request was aborted, a TypeError for a network failure.
Rejection == IF signal THEN "AbortError" ELSE "TypeError"

\* What the abort check after an await throws: reading .signal of the null
\* left by handleStop is a TypeError; `throw new Error("AbortError")`
\* otherwise.
AbortCheckThrows == IF ctrl = "null" THEN "TypeError" ELSE "AbortError"

\* The catch and finally of handleSend: an error whose name or message is
\* "AbortError" records the turn as stopped, any other as failed.
Catch(e) ==
  /\ cpc' = "done"
  /\ outcome' = IF e = "AbortError" THEN "aborted" ELSE "error"
  /\ ctrl' = "null"

\* fetch of phase 1 resolves (headers flushed): the selection promise is
\* created, its timer armed, and the reader loop starts.
Fetch1Resolves ==
  /\ cpc = "fetch1"
  /\ pc[1] \notin {"idle", "received"}
  /\ ~connDown[1]
  /\ ~AbortObserved
  /\ timer' = "armed"
  /\ reading1' = TRUE
  /\ cpc' = "await_selection"
  /\ UNCHANGED <<sver, cver, turnVars, dataVars, libVars, srvVars, ctrl, signal, settledBy, result, nread,
                 streamFailed, outcome>>

\* fetch of phase 1 rejects.
Fetch1Fails ==
  /\ cpc = "fetch1"
  /\ connDown[1] \/ signal
  /\ Catch(Rejection)
  /\ UNCHANGED <<sver, cver, turnVars, dataVars, libVars, srvVars, signal, timer, settledBy, result,
                 nread, reading1, streamFailed>>

\* The reader loop of phase 1 processes the next frame.
Read1Frame ==
  /\ reading1
  /\ ~connDown[1]
  /\ nread[1] < Len(frames[1])
  /\ LET f == frames[1][nread[1] + 1] IN
       /\ nread' = Set(nread, 1, nread[1] + 1)
       /\ IF FrameResolves(f)
          THEN /\ timer' = IF timer = "armed" THEN "cleared" ELSE timer
               /\ Resolve(IF f.dsr.present THEN "server" ELSE "other", f.dsr)
               /\ reading1' = FALSE
          ELSE UNCHANGED <<timer, settledBy, result, reading1>>
  /\ UNCHANGED <<sver, cver, turnVars, dataVars, libVars, srvVars, cpc, ctrl, signal, streamFailed,
                 outcome>>

\* The stream of phase 1 ends without a result: fallback.
Read1Done ==
  /\ reading1
  /\ ~connDown[1]
  /\ ended[1]
  /\ nread[1] = Len(frames[1])
  /\ Resolve("noresult", FallbackDescriptor)
  /\ reading1' = FALSE
  /\ UNCHANGED <<sver, cver, turnVars, dataVars, libVars, srvVars, cpc, ctrl, signal, timer, nread,
                 streamFailed, outcome>>

\* reader.read() of phase 1 rejects: the timer is cleared, fallback.
Read1Error ==
  /\ reading1
  /\ connDown[1]
  /\ timer' = IF timer = "armed" THEN "cleared" ELSE timer
  /\ Resolve("error", FallbackDescriptor)
  /\ reading1' = FALSE
  /\ streamFailed' = TRUE
  /\ UNCHANGED <<sver, cver, turnVars, dataVars, libVars, srvVars, cpc, ctrl, signal, nread, outcome>>

\* The selection timer fires: fallback.
TimerFires ==
  /\ timer = "armed"
  /\ timer' = "fired"
  /\ Resolve("timeout", FallbackDescriptor)
  /\ UNCHANGED <<sver, cver, turnVars, dataVars, libVars, srvVars, cpc, ctrl, signal, nread, reading1,
                 streamFailed, outcome>>

\* handleSend resumes after the selection promise and throws: the abort
\* check fails.
SelectionAborted ==
  /\ cpc = "await_selection"
  /\ PromiseSettled
  /\ AbortObserved
  /\ Catch(AbortCheckThrows)
  /\ UNCHANGED <<sver, cver, turnVars, dataVars, libVars, srvVars, signal, timer, settledBy, result,
                 nread, reading1, streamFailed>>

\* handleSend resumes after the selection promise: the data is resolved
\* and the analysis request is sent.
IssuePhase2 ==
  /\ cpc = "await_selection"
  /\ PromiseSettled
  /\ ~AbortObserved
  /\ ProceedWithSelection(result)
  /\ mode' = Set(mode, 2, "analyze")
  /\ doc' = Set(doc, 2, doc[1])
  /\ pc' = Set(pc, 2, "received")
  /\ cpc' = "fetch2"
  /\ UNCHANGED <<sver, cver, turnVars, dataVars, libVars, aborted, connDown, tool, calls, ran, args, td, exc, sb,
                 frames, began, chunks, run, cap, sres, ended, ctrl, signal, timer,
                 settledBy, result, nread, reading1, streamFailed, outcome>>

\* src/app/page.tsx: without a dataSelection the turn ends after phase 1.
SkipPhase2 ==
  /\ cpc = "await_selection"
  /\ PromiseSettled
  /\ ~AbortObserved
  /\ ~ProceedWithSelection(result)
  /\ cpc' = "done"
  /\ outcome' = "completed"
  /\ ctrl' = "null"
  /\ UNCHANGED <<sver, cver, turnVars, dataVars, libVars, srvVars, signal, timer, settledBy, result,
                 nread, reading1, streamFailed>>

\* fetch of phase 2 resolves.
Fetch2Resolves ==
  /\ cpc = "fetch2"
  /\ pc[2] \notin {"idle", "received"}
  /\ ~connDown[2]
  /\ ~signal
  /\ cpc' = "reading2"
  /\ UNCHANGED <<sver, cver, turnVars, dataVars, libVars, srvVars, ctrl, signal, timer, settledBy, result,
                 nread, reading1, streamFailed, outcome>>

\* fetch of phase 2 rejects.
Fetch2Fails ==
  /\ cpc = "fetch2"
  /\ connDown[2] \/ signal
  /\ Catch(Rejection)
  /\ UNCHANGED <<sver, cver, turnVars, dataVars, libVars, srvVars, signal, timer, settledBy, result,
                 nread, reading1, streamFailed>>

\* The reader loop of phase 2 processes the next frame.
Read2Frame ==
  /\ cpc = "reading2"
  /\ ~connDown[2]
  /\ nread[2] < Len(frames[2])
  /\ nread' = Set(nread, 2, nread[2] + 1)
  /\ UNCHANGED <<sver, cver, turnVars, dataVars, libVars, srvVars, cpc, ctrl, signal, timer, settledBy,
                 result, reading1, streamFailed, outcome>>

\* The stream of phase 2 ends: final update, finally.
Read2Done ==
  /\ cpc = "reading2"
  /\ ~connDown[2]
  /\ ended[2]
  /\ nread[2] = Len(frames[2])
  /\ cpc' = "done"
  /\ outcome' = "completed"
  /\ ctrl' = "null"
  /\ UNCHANGED <<sver, cver, turnVars, dataVars, libVars, srvVars, signal, timer, settledBy, result,
                 nread, reading1, streamFailed>>

\* reader.read() of phase 2 rejects.
Read2Error ==
  /\ cpc = "reading2"
  /\ connDown[2]
  /\ Catch(Rejection)
  /\ UNCHANGED <<sver, cver, turnVars, dataVars, libVars, srvVars, signal, timer, settledBy, result,
                 nread, reading1, streamFailed>>

----------------------------------------------------------------------------
ServerStep(r) ==
  \/ Handler(r) \/ Close(r) \/ NetDrop(r)
  \/ CompletionReturns(r)
  \/ StreamOpens(r) \/ StreamChunk(r) \/ StreamEnds(r)
  \/ ToolCompletionFails(r) \/ ToolCompletionAborted(r) \/ NoToolCall(r)
  \/ DispatchSync(r)
  \/ DispatchPython(r) \/ InitReturns(r) \/ RunReturns(r)
  \/ StructureReturns(r)
  \/ DestroyAbort(r) \/ DestroyFinRet(r) \/ DestroyFin(r) \/ DestroyOuter(r)
  \/ HandlerPython(r) \/ HandlerInitReturns(r) \/ HandlerRunReturns(r)
  \/ HandlerStructureReturns(r) \/ HandlerDestroy(r)
  \/ StreamPython(r) \/ CreateReturns(r) \/ FileWriteReturns(r)
  \/ RunCodeReturns(r) \/ FileReadReturns(r)
  \/ DispatchDocument(r) \/ VisionReturns(r)

ClientStep ==
  \/ Send \/ Stop
  \/ Fetch1Resolves \/ Fetch1Fails
  \/ Read1Frame \/ Read1Done \/ Read1Error \/ TimerFires
  \/ SelectionAborted \/ IssuePhase2 \/ SkipPhase2
  \/ Fetch2Resolves \/ Fetch2Fails
  \/ Read2Frame \/ Read2Done \/ Read2Error

Next == (\E r \in Req : ServerStep(r)) \/ ClientStep

Spec == Init /\ [][Next]_vars

----------------------------------------------------------------------------
(* One request alone: any request body, the connection may drop at any     *)
(* time.                                                                   *)

\* A POST arrives at /api/llm.
Arrive ==
  /\ cpc = "idle"
  /\ pc[1] = "idle"
  /\ \E m \in {"select", "analyze"}, d \in DocLengths :
       /\ mode' = Set(mode, 1, m)
       /\ doc' = Set(doc, 1, d)
  /\ pc' = Set(pc, 1, "received")
  /\ UNCHANGED <<sver, cver, turnVars, dataVars, libVars, aborted, connDown, tool, calls, ran, args, td, exc, sb,
                 frames, began, chunks, run, cap, sres, ended, cliVars>>

NextRequest == Arrive \/ ServerStep(1)

SpecRequest == Init /\ [][NextRequest]_vars

----------------------------------------------------------------------------
(* Properties of the sandbox lifecycle *)

PythonCallHandled(r) ==
  /\ sver \in {"llm", "handlers"}
  /\ tool[r] = "execute_python_code"
  /\ sb[r].created > 0
  /\ pc[r] = "done"

\* C1: for every execute_python_code tool call the controller handles,
\* exactly one sandbox is created (one new PyodideSandbox) and destroy() is
\* called on it exactly once by the time the request is over.
C1_OneCreateOneDestroy ==
  \A r \in Req :
    PythonCallHandled(r) => sb[r].created = 1 /\ sb[r].destroyCalls = 1

\* The dispatch step of request r has returned control.
DispatchReturned(r) == pc[r] \in {"d_outer", "done"}

\* C2: a sandbox created by the tool-dispatch step has been destroyed when
\* the step returns control, whatever the exit path (result, thrown error,
\* cancellation), and the sandbox sessions of the two requests of a turn
\* are never open at the same time.
C2_DestroyedOnEveryExit ==
  /\ \A r \in Req :
       (DispatchReturned(r) /\ sb[r].created > 0) =>
         /\ sb[r].completed >= 1
         /\ ~sb[r].pyodide
         /\ ~sb[r].initialized
  /\ ~(SessionOpen(sb[1]) /\ SessionOpen(sb[2]))

\* A request that ran Python into the timeout, was cancelled, and has
\* released its runtime.
C2_Witness ==
  \E r \in Req :
    /\ pc[r] = "done"
    /\ sb[r].created = 1
    /\ run[r] = "timeout"
    /\ aborted[r]
    /\ sb[r].releases = 1

\* Request r has not reached a tool branch.
BeforeBranch(r) ==
  pc[r] \in {"idle", "received", "await_completion", "await_stream",
             "streaming", "await_tool"}

----------------------------------------------------------------------------
(* Properties of cancellation on the server *)

\* C4: after the close signal of a request has fired, handleLLMRequest
\* writes no further frame to that response.
C4_NoFrameAfterClose ==
  [][ \A r \in Req : aborted[r] => frames'[r] = frames[r] ]_vars

\* A request that was closed while its sandbox ran and that ended without
\* any frame.
C4_Witness ==
  \E r \in Req :
    /\ aborted[r]
    /\ pc[r] = "done"
    /\ sb[r].created = 1
    /\ run[r] # "none"
    /\ frames[r] = << >>

\* C5: after the client has cancelled, neither the controller nor a tool
\* handler begins a new LLM call, sandbox initialization or sandbox
\* execution for that request.
C5_NoNewWorkAfterCancel ==
  [][ \A r \in Req : aborted[r] => began'[r] = began[r] ]_vars

----------------------------------------------------------------------------
(* Properties of the response frames *)

TerminalFrames(r) ==
  {i \in DOMAIN frames[r] : frames[r][i].streaming = "false"}

\* C6: a request that is not cancelled writes exactly one frame with
\* streaming: false, on every path: tool call, no tool call, tool error,
\* LLM failure and rejected document.
C6_OneTerminalFrame ==
  \A r \in Req :
    (pc[r] = "done" /\ ~aborted[r] /\ ~Refused(r))
      => Cardinality(TerminalFrames(r)) = 1

\* C7: the streaming: true frames of a response are in generation order,
\* and the terminal frame comes after all of them and is the last frame.
C7_FramesInOrder ==
  \A r \in Req :
    /\ \A i, j \in DOMAIN frames[r] :
         ( /\ i < j
           /\ frames[r][i].streaming = "true"
           /\ frames[r][j].streaming = "true" ) =>
           frames[r][i].seq < frames[r][j].seq
    /\ \A i \in TerminalFrames(r) : i = Len(frames[r])

\* Two text frames followed by the terminal frame.
C7_Witness ==
  \E r \in Req :
    /\ Len(frames[r]) = 3
    /\ frames[r][1].streaming = "true"
    /\ frames[r][2].streaming = "true"
    /\ frames[r][3].streaming = "false"

----------------------------------------------------------------------------
(* Properties of the two-phase turn *)

ServerDescriptor(v) ==
  \E i \in DOMAIN frames[1] : frames[1][i].dsr = v

\* C8: the phase-2 request is issued only after phase 1 has settled with a
\* selection descriptor, the server's or a fallback; never while phase 1 is
\* pending.
C8_Phase2AfterPhase1 ==
  pc[2] # "idle" =>
    /\ settledBy # "none"
    /\ cpc \notin {"idle", "fetch1", "await_selection"}
    /\ result.present
    /\ result.fallback \/ ServerDescriptor(result)

\* Phase 2 was issued with the fallback descriptor of the selection timer
\* while the phase-1 request was still running.
C8_Witness ==
  /\ pc[2] # "idle"
  /\ settledBy = "timeout"
  /\ result.fallback
  /\ pc[1] # "done"

\* C9: when the selection timer fires before a selection result has been
\* received, the result the turn goes on with carries a dataSelectionResult
\* that is not empty and has fallback: true.
C9_TimeoutYieldsFallbackSelection ==
  settledBy = "timeout" => result.present /\ result.fallback

\* Phase 1 of the turn failed: no tool call, arguments that do not parse,
\* or a stream failure.
Phase1Failed ==
  \/ streamFailed
  \/ pc[1] = "done" /\ tool[1] = "none"
  \/ /\ pc[1] = "done"
     /\ tool[1] = "select_data_for_analysis"
     /\ args[1] = "unparsable"

\* C10: when phase 1 fails, the turn takes the default descriptor (a range,
\* analysis type "summary") marked as fallback and goes on to phase 2; it
\* never ends in an error.
C10_Phase1FailureFallsBack ==
  (cver = "select" /\ Phase1Failed /\ settledBy # "none" /\ ~signal) =>
    /\ result.present
    /\ result.fallback
    /\ result.analysisType = "summary"
    /\ result.selectionType = "range"
    /\ cpc = "done" => pc[2] # "idle"

----------------------------------------------------------------------------
(* Properties of tool dispatch *)

\* The terminal frames of request r that carry a selection descriptor with
\* a selectionType.
DescriptorFrames(r) ==
  {i \in TerminalFrames(r) :
     frames[r][i].dsr.present /\ frames[r][i].dsr.selectionType # ""}

\* C11: a request in selection mode whose tool-selection call returned the
\* forced select_data_for_analysis call ends with a terminal frame that
\* carries a dataSelectionResult with a selectionType; it never ends with
\* text alone or without a descriptor.
C11_SelectionModeYieldsDescriptor ==
  \A r \in Req :
    ( /\ sver # "stream"
      /\ mode[r] = "select"
      /\ tool[r] = "select_data_for_analysis"
      /\ pc[r] = "done"
      /\ ~aborted[r] ) => DescriptorFrames(r) # {}

\* The result each tool handler documents for arguments that do not parse:
\* the toolData built from the fallback passed to safeParseToolArgs.
DocumentedFallback(name) ==
  CASE name = "select_data_for_analysis" ->
         ToolData("selection", ParseFallbackArgs, FALSE, "absent")
    [] name = "analyze_spreadsheet_structure" ->
         ToolData("structure", NoDSR, FALSE, "absent")
    [] name = "set_spreadsheet_cells" ->
         ToolData("updates", NoDSR, FALSE, "empty")
    [] name = "create_chart" -> ToolData("chart", NoDSR, FALSE, "absent")

FallbackTools ==
  {"select_data_for_analysis", "analyze_spreadsheet_structure",
   "set_spreadsheet_cells", "create_chart"}

\* C12: for every tool with a documented fallback and arguments that cannot
\* be parsed, the dispatch yields that tool's fallback result and no
\* exception.
C12_UnparsableArgsYieldFallback ==
  \A r \in Req :
    ( /\ sver # "stream"
      /\ tool[r] \in FallbackTools
      /\ args[r] = "unparsable"
      /\ DispatchReturned(r) ) =>
      /\ td[r] = DocumentedFallback(tool[r])
      /\ ~td[r].error

\* Frame kinds whose response text reports a failure instead of a result.
FailureKinds == {"invalid_selection", "tool_error", "python_error"}

\* C13: when the arguments of a set_spreadsheet_cells call are invalid JSON,
\* the request still ends with a terminal frame whose updates is the empty
\* list and whose response reports the failure; no exception escapes.
C13_MalformedSetCellsYieldsEmptyUpdates ==
  \A r \in Req :
    ( /\ sver # "stream"
      /\ tool[r] = "set_spreadsheet_cells"
      /\ args[r] = "unparsable"
      /\ pc[r] = "done"
      /\ ~aborted[r] ) =>
      \E i \in TerminalFrames(r) :
        /\ frames[r][i].updates = "empty"
        /\ frames[r][i].kind \in FailureKinds

----------------------------------------------------------------------------
(* Properties of the sandbox timeout *)

\* The code of request r ran into the sandbox timeout.
TimedOut(r) == sver # "stream" /\ run[r] = "timeout"

\* C14: when the code of an execute_python_code call runs past the sandbox
\* timeout, the terminal frame has a response that reports an error and
\* carries no updates (absent or empty), and the stdout captured before the
\* timeout is kept in the sandbox result.
C14_TimeoutYieldsErrorFrame ==
  \A r \in Req :
    (TimedOut(r) /\ pc[r] = "done" /\ ~aborted[r]) =>
      /\ sres[r].stdout = cap[r].out
      /\ \E i \in TerminalFrames(r) :
           /\ frames[r][i].kind \in FailureKinds
           /\ frames[r][i].updates \in {"absent", "empty"}

Pieces(q) == {q[i] : i \in DOMAIN q}

\* C15: when the timer wins the race in runDataAnalysis, the call returns a
\* result (it does not throw) that holds the stdout and the stderr captured
\* up to that point and is tagged as a timeout.
C15_TimeoutResultKeepsOutput ==
  \A r \in Req :
    TimedOut(r) =>
      /\ sres[r] # NoResult
      /\ sres[r].stdout = cap[r].out
      /\ Pieces(cap[r].err) \subseteq Pieces(sres[r].stderr)
      /\ "Analysis timeout" \in Pieces(sres[r].stderr)

----------------------------------------------------------------------------
(* Properties of the dispatch of several tool calls *)

\* C16: when the tool-selection response proposes one or more tool calls
\* and the request is dispatched, exactly one branch is executed, that of
\* the first call; the remaining calls are not executed (no sandbox is
\* created for them).
C16_OnlyFirstCallDispatched ==
  \A r \in Req :
    (Len(calls[r]) >= 1 /\ (ran[r] # << >> \/ ~aborted[r])) =>
      /\ ran[r] = <<calls[r][1]>>
      /\ tool[r] = calls[r][1]
      /\ calls[r][1] # "execute_python_code" => sb[r].created = 0

\* A response with two calls, set_spreadsheet_cells first: the request ended
\* with the updates of the first call.
C16_Witness ==
  \E r \in Req :
    /\ Len(calls[r]) = 2
    /\ calls[r][1] = "set_spreadsheet_cells"
    /\ pc[r] = "done"
    /\ ~aborted[r]
    /\ \E i \in TerminalFrames(r) : frames[r][i].updates = "some"

----------------------------------------------------------------------------
(* Two analysis requests in flight at once, each calling execute_python_code *)
(* or no tool; no disconnect.                                               *)

ArrivePair(r) ==
  /\ cpc = "idle"
  /\ sver # "stream"
  /\ pc[r] = "idle"
  /\ pc' = Set(pc, r, "received")
  /\ UNCHANGED <<sver, cver, turnVars, dataVars, libVars, aborted, connDown, mode, doc, tool, calls, ran,
                 args, td, exc, sb, frames, began, chunks, run, cap, sres,
                 ended, cliVars>>

PairStep(r) ==
  \/ ArrivePair(r)
  \/ Handler(r)
  \/ CompletionReturns(r)
  \/ ToolCompletionFails(r)
  \/ NoToolCall(r)
  \/ DispatchPython(r)
  \/ InitReturns(r)
  \/ RunReturns(r)
  \/ StructureReturns(r)
  \/ DestroyFin(r)
  \/ DestroyOuter(r)
  \/ HandlerPython(r)
  \/ HandlerInitReturns(r)
  \/ HandlerRunReturns(r)
  \/ HandlerStructureReturns(r)
  \/ HandlerDestroy(r)

NextPair == \E r \in Req : PairStep(r)

SpecPair == Init /\ [][NextPair]_vars

\* C17: a sandbox is created only when the dispatched tool is
\* execute_python_code, a request creates at most one sandbox instance, and
\* no instance is held by two different requests, also when the requests
\* run at the same time.
C17_SandboxPerRequest ==
  /\ \A r \in Req :
       /\ sb[r].created > 0 => tool[r] = "execute_python_code"
       /\ sb[r].created <= 1
  /\ \A r1, r2 \in Req :
       (r1 # r2 /\ sb[r1].id # 0) => sb[r1].id # sb[r2].id

\* Both requests hold an initialized sandbox at the same time.
C17_Witness ==
  /\ sb[1].initialized
  /\ sb[2].initialized
  /\ pc[1] \in {"await_run", "h_run"}
  /\ pc[2] \in {"await_run", "h_run"}

----------------------------------------------------------------------------
(* Properties of the end of a turn *)

\* C18: a user stop drives the turn to Aborted from every state in which
\* it is still running: a turn that was stopped is recorded as stopped when
\* handleSend finishes, not as completed and not as failed with an error.
C18_StopLeadsToAborted ==
  (cpc = "done" /\ signal) => outcome = "aborted"

----------------------------------------------------------------------------
(* Client: several turns of the conversation.  Each turn is one call of
   handleSend; all of them use the one abortController ref of the page.  The
   frames a response carries are inputs here. *)

\* No message the page appends carries a streaming field.
Streaming(m) == FALSE

\* The last message of the chat history, NoMessage while it is empty.
LastMessage ==
  IF chatHistory[2] # NoMessage THEN chatHistory[2] ELSE chatHistory[1]

\* isLoading of the chat box once its effect on chatHistory has run.
IsLoading == LastMessage # NoMessage /\ Streaming(LastMessage)

\* The turn is between its first await and the end of handleSend.
InFlight(t) == tpc[t] \in {"fetch1", "selecting", "fetch2", "reading"}

\* What a frame of phase 1 can carry.
SelectionFrames ==
  IF cver = "page" THEN {"selection", "updates", "text", "none"}
  ELSE {"selection", "none"}

\* setChatHistory of the phase-1 reader for a frame.
SelectionUpdate(m, f) ==
  CASE f = "selection" -> [m EXCEPT !.response = "analyzing"]
    [] f = "updates"   -> [m EXCEPT !.response = "text", !.updates = TRUE,
                                    !.status = "completed"]
    [] f = "text"      -> [m EXCEPT !.response = "text", !.status = "completed"]
    [] OTHER           -> m

\* setChatHistory of the phase-2 reader for a frame.
FrameUpdate(m, f) ==
  IF cver = "page"
  THEN [m EXCEPT !.response = "text",
                 !.updates = @ \/ f = "updates",
                 !.status = IF f = "updates" THEN "completed" ELSE @]
  ELSE [m EXCEPT !.response = "text",
                 !.updates = (f = "updates"),
                 !.status = IF f = "updates" THEN "completed" ELSE "null"]

\* The final update after the phase-2 stream has ended.
FinalUpdate(m) ==
  IF cver = "page" THEN m
  ELSE [m EXCEPT !.status = IF m.updates THEN "completed" ELSE "null"]

\* setChatHistory of the catch of handleSend.
CatchUpdate(m, e) ==
  [m EXCEPT !.response = IF e = "AbortError" THEN "perished" ELSE "error",
            !.status = "null"]

\* The catch and the finally of the handleSend call of turn t.
TurnCatch(t, e) ==
  /\ tpc' = [tpc EXCEPT ![t] = "done"]
  /\ chatHistory' = [chatHistory EXCEPT ![t] = CatchUpdate(@, e)]
  /\ abortController' = 0

\* The finally of a handleSend call that ended without an exception.
TurnFinally(t, m) ==
  /\ tpc' = [tpc EXCEPT ![t] = "done"]
  /\ chatHistory' = [chatHistory EXCEPT ![t] = m]
  /\ abortController' = 0

\* ChatBox.handleSend and handleSend up to its first await.
TurnSend(t) ==
  /\ tpc[t] = "idle"
  /\ \A u \in Turn : u < t => tpc[u] # "idle"
  /\ ~IsLoading
  /\ chatHistory' = [chatHistory EXCEPT ![t] = NewMessage]
  /\ abortController' = t
  /\ tpc' = [tpc EXCEPT ![t] = "fetch1"]
  /\ UNCHANGED <<sver, cver, srvVars, cliVars, dataVars, libVars>>

\* The phase-1 fetch resolves; handleSend reads abortController.current.
TurnFetch1Resolves(t) ==
  /\ tpc[t] = "fetch1"
  /\ IF abortController = 0
     THEN TurnCatch(t, "TypeError")
     ELSE /\ tpc' = [tpc EXCEPT ![t] = "selecting"]
          /\ UNCHANGED <<chatHistory, abortController>>
  /\ UNCHANGED <<sver, cver, srvVars, cliVars, dataVars, libVars>>

\* A fetch, or reader.read() of phase 2, rejects with a network error.
TurnRejects(t) ==
  /\ tpc[t] \in {"fetch1", "fetch2", "reading"}
  /\ TurnCatch(t, "TypeError")
  /\ UNCHANGED <<sver, cver, srvVars, cliVars, dataVars, libVars>>

\* The selection promise resolves with what frame f carried ("none": with
\* the fallback), handleSend reads abortController.current and goes on to
\* phase 2 or ends.
TurnSelected(t) ==
  /\ tpc[t] = "selecting"
  /\ \E f \in SelectionFrames :
       LET m == SelectionUpdate(chatHistory[t], f) IN
       IF abortController = 0
       THEN /\ tpc' = [tpc EXCEPT ![t] = "done"]
            /\ chatHistory' = [chatHistory EXCEPT ![t] = CatchUpdate(m, "TypeError")]
            /\ abortController' = 0
       ELSE IF ProceedWithSelection([present |-> f = "selection"])
            THEN /\ tpc' = [tpc EXCEPT ![t] = "fetch2"]
                 /\ chatHistory' = [chatHistory EXCEPT ![t] = m]
                 /\ UNCHANGED abortController
            ELSE TurnFinally(t, m)
  /\ UNCHANGED <<sver, cver, srvVars, cliVars, dataVars, libVars>>

\* The phase-2 fetch resolves and the reader loop starts.
TurnFetch2Resolves(t) ==
  /\ tpc[t] = "fetch2"
  /\ tpc' = [tpc EXCEPT ![t] = "reading"]
  /\ UNCHANGED <<sver, cver, srvVars, cliVars, dataVars, libVars, chatHistory, abortController>>

\* The phase-2 reader processes a frame: a text chunk, or the last frame of
\* the response with its updates.
TurnFrame(t) ==
  /\ tpc[t] = "reading"
  /\ ~chatHistory[t].updates
  /\ \E f \in {"text", "updates"} :
       chatHistory' = [chatHistory EXCEPT ![t] = FrameUpdate(@, f)]
  /\ UNCHANGED <<sver, cver, srvVars, cliVars, dataVars, libVars, tpc, abortController>>

\* reader.read() of phase 2 reports done.
TurnStreamEnds(t) ==
  /\ tpc[t] = "reading"
  /\ TurnFinally(t, FinalUpdate(chatHistory[t]))
  /\ UNCHANGED <<sver, cver, srvVars, cliVars, dataVars, libVars>>

\* The accept and reject buttons are shown for a message with updates whose
\* status is pending or completed.
ButtonsShown(m) ==
  /\ ~Streaming(m)
  /\ m.updates
  /\ m.status \in {"pending", "completed"}

handleAccept(t) ==
  /\ ButtonsShown(chatHistory[t])
  /\ chatHistory' = [chatHistory EXCEPT ![t].status = "accepted"]
  /\ UNCHANGED <<sver, cver, srvVars, cliVars, dataVars, libVars, tpc, abortController>>

handleReject(t) ==
  /\ ButtonsShown(chatHistory[t])
  /\ chatHistory' = [chatHistory EXCEPT ![t].status = "rejected"]
  /\ UNCHANGED <<sver, cver, srvVars, cliVars, dataVars, libVars, tpc, abortController>>

TurnStep(t) ==
  \/ TurnSend(t)
  \/ TurnFetch1Resolves(t)
  \/ TurnRejects(t)
  \/ TurnSelected(t)
  \/ TurnFetch2Resolves(t)
  \/ TurnFrame(t)
  \/ TurnStreamEnds(t)
  \/ handleAccept(t)
  \/ handleReject(t)

NextTurns == \E t \in Turn : TurnStep(t)

SpecTurns == Init /\ [][NextTurns]_vars

\* C19: the cancellation token belongs to one turn: while a turn is in
\* flight, abortController.current is the token that turn created; the
\* start or the end of another turn neither replaces nor clears it.
C19_TokenBelongsToTurn ==
  \A t \in Turn : InFlight(t) => abortController = t

\* C20: once the status of a turn is accepted or rejected, no later event
\* changes it: not a frame, not the final update, not an abort or an error.
C20_AcceptedIsTerminal ==
  [][\A t \in Turn :
       chatHistory[t].status \in {"accepted", "rejected"}
         => chatHistory'[t].status = chatHistory[t].status]_vars

----------------------------------------------------------------------------
(* Properties of failures *)

\* The frames of the response that carry an error field.
ErrorFrames(r) == {i \in DOMAIN frames[r] : frames[r][i].error}

\* analyzeDocumentWithVision was begun and its language-model call threw.
VisionCallThrew(r) ==
  /\ \E i \in DOMAIN began[r] : began[r][i] = "vision"
  /\ td[r].kind = "doc_error"

\* C21: when a language-model call of a request throws, the response of the
\* request, if it was not cancelled, carries exactly one {error} frame;
\* stated for the vision analysis call of the document tool.
C21_ModelFailureYieldsOneErrorFrame ==
  \A r \in Req :
    (DispatchReturned(r) /\ VisionCallThrew(r) /\ ~aborted[r])
      => Cardinality(ErrorFrames(r)) = 1

\* The document_analysis branch of the controller (the streaming controller
\* has none) was dispatched for a request without a document, with arguments
\* that parse, and the request was not cancelled.
DocumentToolWithoutDocument(r) ==
  /\ sver # "stream"
  /\ DispatchReturned(r)
  /\ tool[r] = "document_analysis"
  /\ doc[r] = 0
  /\ args[r] # "unparsable"
  /\ ~aborted[r]

C23_OversizedDocumentRejected ==
  \A r \in Req :
    (sver # "stream" /\ pc[r] \notin {"idle", "received"}) =>
      IF TooBig(doc[r])
      THEN /\ frames[r] = <<ErrorFrame>>
           /\ ended[r]
           /\ began[r] = << >>
           /\ sb[r] = NoSandbox
      ELSE began[r] # << >>

----------------------------------------------------------------------------
(* Properties of the tool result *)

\* The structured payloads of a frame, next to its response text.
Payloads(f) ==
  {p \in {"updates", "chartData", "sheetOperation", "dataSelectionResult",
          "structureAnalysisResult", "analysis", "error"} :
     \/ p = "updates" /\ f.updates # "absent"
     \/ p = "chartData" /\ f.kind = "chart"
     \/ p = "sheetOperation" /\ f.kind = "sheet_op"
     \/ p = "dataSelectionResult" /\ f.dsr.present
     \/ p = "structureAnalysisResult" /\ f.kind = "structure"
     \/ p = "analysis" /\ f.analysis
     \/ p = "error" /\ f.error}

\* C24: every terminal frame carries at most one structured payload among
\* updates, chartData, sheetOperation, dataSelectionResult,
\* structureAnalysisResult, analysis and error.
C24_AtMostOnePayload ==
  \A r \in Req : \A i \in TerminalFrames(r) :
    Cardinality(Payloads(frames[r][i])) <= 1

\* Whether the response text of a frame names the target cells of its
\* updates or their number.  The set_spreadsheet_cells branch lists
\* `target: formula` for every update; the document branch names the start
\* cell; the execute_python_code branch writes "I've analyzed your data:
\* <goal>" (llm.ts, part_006) or "Analysis: <goal> Results: <output>"
\* (part_013).
ResponseMentionsUpdates(f) ==
  CASE f.kind = "updates" -> TRUE
    [] f.kind = "doc" -> TRUE
    [] OTHER -> FALSE

\* C25: whenever a terminal frame carries cell updates (at least one), its
\* response text mentions the number of the updates or their target cells.
C25_ResponseConsistentWithUpdates ==
  \A r \in Req : \A i \in TerminalFrames(r) :
    frames[r][i].updates = "some" => ResponseMentionsUpdates(frames[r][i])

----------------------------------------------------------------------------
(* Rendering of spreadsheet data: the resolution of a data selection against
   the active sheet and formatSpreadsheetData *)

MaxRows == 2
MaxCols == 2

\* A cell is empty ("") or holds a value.
Cells == {"", "v"}
SheetRows == UNION {[1..n -> Cells] : n \in 0..MaxCols}
Grids == UNION {[1..n -> SheetRows] : n \in 0..MaxRows}

Maximum(S) == CHOOSE x \in S : \A y \in S : y <= x
Minimum(a, b) == IF a <= b THEN a ELSE b

\* The letters of the column with the 0-based index.
RECURSIVE getColumnRefLoop(_, _)
getColumnRefLoop(index, columnRef) ==
  IF index < 0 THEN columnRef
  ELSE getColumnRefLoop((index \div 26) - 1,
                        <<(index % 26) + 1>> \o columnRef)

getColumnRef(index) == getColumnRefLoop(index, << >>)

\* The 0-based index of a column reference.
RECURSIVE ColumnNumber(_, _)
ColumnNumber(colRef, colNum) ==
  IF colRef = << >> THEN colNum
  ELSE ColumnNumber(Tail(colRef), colNum * 26 + Head(colRef))

ColumnIndex(colRef) == ColumnNumber(colRef, 0) - 1

\* data[r][c] of a grid, 0-based, undefined read as "".
CellAt(data, r, c) ==
  IF r + 1 \in DOMAIN data /\ c + 1 \in DOMAIN data[r + 1]
  THEN data[r + 1][c + 1] ELSE ""

extractRangeFromData(data, range) ==
  IF data = << >> THEN << <<"">> >>
  ELSE LET last == Minimum(range.endRow, Len(data) - 1)
           n == IF last >= range.startRow THEN last - range.startRow + 1 ELSE 0
           w == IF range.endCol >= range.startCol
                THEN range.endCol - range.startCol + 1 ELSE 0
       IN [i \in 1..n |->
            [j \in 1..w |->
               CellAt(data, range.startRow + i - 1, range.startCol + j - 1)]]

extractColumnData(data, colRef) ==
  IF data = << >> THEN <<"">>
  ELSE [i \in 1..Len(data) |-> CellAt(data, i - 1, ColumnIndex(colRef))]

extractRowData(data, rowNum) ==
  IF data = << >> THEN <<"">>
  ELSE IF rowNum - 1 < 0 \/ rowNum - 1 >= Len(data) THEN <<"">>
  ELSE data[rowNum]

\* A tagged cell of the rendering: <col row>cell</col row>.
Tag(c, r, v) == [col |-> c, row |-> r, cell |-> v]

\* columnRefs[colIndex] where columnRefs has no such element.
Undefined == <<0>>

isEmpty(cell) == cell = ""

\* A rendering that would leave out the rows an earlier rendering has shown.
DataToProcessOnce(data, sampleMode, maxSampleRows) ==
  IF context # << >> THEN << >>
  ELSE IF sampleMode THEN SubSeq(data, 1, Minimum(maxSampleRows, Len(data)))
  ELSE data

\* dataToProcess: the first maxSampleRows rows in sample mode, else all rows.
DataToProcess(data, sampleMode, maxSampleRows) ==
  IF sampleMode THEN SubSeq(data, 1, Minimum(maxSampleRows, Len(data)))
  ELSE data

MaxColumns(d) == Maximum({Len(d[i]) : i \in DOMAIN d} \cup {0})

\* A rendering that would always count the columns from A.
ColumnRefsFromA(data, d, originalColumn) ==
  [i \in 1..MaxColumns(d) |-> getColumnRef(i - 1)]

\* columnRefs: the original column for extracted column data, else A, B, ...
ColumnRefs(data, d, originalColumn) ==
  IF originalColumn # NoColumn /\ data # << >> /\ Len(data[1]) = 1
  THEN <<originalColumn>>
  ELSE [i \in 1..MaxColumns(d) |-> getColumnRef(i - 1)]

ColumnRefAt(refs, j) == IF j \in DOMAIN refs THEN refs[j] ELSE Undefined

LastNonEmptyIndex(row) ==
  Maximum({j \in DOMAIN row : ~isEmpty(row[j])} \cup {0})

\* A rendering of a row that would stop at its first empty cell.
RowContentToFirstGap(row, rowNumber, refs) ==
  LET gaps == {j \in DOMAIN row : isEmpty(row[j])}
      last == IF gaps = {} THEN Len(row)
              ELSE (CHOOSE g \in gaps : \A h \in gaps : g <= h) - 1
  IN [j \in 1..last |-> Tag(ColumnRefAt(refs, j), rowNumber, row[j])]

\* The tags of one row: empty cells are skipped, the others keep their index.
RowContent(row, rowNumber, refs) ==
  LET tags == [j \in 1..LastNonEmptyIndex(row) |->
                 Tag(ColumnRefAt(refs, j), rowNumber, row[j])]
  IN SelectSeq(tags, LAMBDA t : ~isEmpty(t.cell))

\* The reduce over the first n rows: a row without content adds nothing.
RECURSIVE FormattedData(_, _, _)
FormattedData(d, n, refs) ==
  IF n = 0 THEN << >>
  ELSE IF \A j \in DOMAIN d[n] : isEmpty(d[n][j])
  THEN FormattedData(d, n - 1, refs)
  ELSE Append(FormattedData(d, n - 1, refs), RowContent(d[n], n, refs))

\* The rendering: its lines of tags and the number of the "more rows not
\* shown" annotation, 0 when there is none.
formatSpreadsheetData(data, sampleMode, maxSampleRows, originalColumn) ==
  LET d == DataToProcess(data, sampleMode, maxSampleRows) IN
  [lines |-> FormattedData(d, Len(d), ColumnRefs(data, d, originalColumn)),
   more |-> IF sampleMode /\ Len(data) > maxSampleRows
            THEN Len(data) - maxSampleRows ELSE 0]

----------------------------------------------------------------------------
(* The selection of phase 1 resolved by the client, and the renderings of
   the server *)

DefaultSampleRows == 5
SelectionSampleRows == 10

NoRange == [startRow |-> 0 - 1, startCol |-> 0 - 1, endRow |-> 0 - 1, endCol |-> 0 - 1]

Ranges ==
  {[startRow |-> r1, startCol |-> c1, endRow |-> r2, endCol |-> c2] :
     r1 \in 0..(MaxRows - 1), r2 \in 0..(MaxRows - 1),
     c1 \in 0..(MaxCols - 1), c2 \in 0..(MaxCols - 1)}

ValidRanges == {rg \in Ranges : rg.startRow <= rg.endRow /\ rg.startCol <= rg.endCol}

\* The column letters a selection can name: those of the sheet and one beyond.
Columns == {getColumnRef(i) : i \in 0..MaxCols}

DataSelection(t, rg, c, n) ==
  [selectionType |-> t, range |-> rg, column |-> c, row |-> n]

\* The selections the model of phase 1 can answer with; an absent range,
\* column or row is NoRange, NoColumn or 0.
DataSelections ==
  {DataSelection("range", rg, NoColumn, 0) : rg \in ValidRanges \cup {NoRange}}
    \cup {DataSelection("column", NoRange, c, 0) : c \in Columns \cup {NoColumn}}
    \cup {DataSelection("row", NoRange, NoColumn, n) : n \in 0..(MaxRows + 1)}

\* The spreadsheetData of a request: the resolved slice once a selection is
\* resolved, the active sheet before.
spreadsheetData == IF selection = NoSelection THEN sheet ELSE relevantData

\* One rendering with the arguments it was made from.
Rendering(site, data, sampleMode, maxSampleRows, originalColumn, text) ==
  [site |-> site, data |-> data, sampleMode |-> sampleMode,
   maxSampleRows |-> maxSampleRows, originalColumn |-> originalColumn,
   text |-> text]

Formatted(site, data, sampleMode, maxSampleRows, originalColumn) ==
  Rendering(site, data, sampleMode, maxSampleRows, originalColumn,
            formatSpreadsheetData(data, sampleMode, maxSampleRows, originalColumn))

\* handleSend: the switch over dataSelection.selectionType.
ResolveSelection(sel) ==
  /\ selection = NoSelection
  /\ \A i \in DOMAIN context : context[i].site = "sample"
  /\ selection' = sel
  /\ relevantData' =
       CASE sel.selectionType = "range" /\ sel.range # NoRange ->
              extractRangeFromData(sheet, sel.range)
         [] sel.selectionType = "column" /\ sel.column # NoColumn ->
              LET columnData == extractColumnData(sheet, sel.column)
              IN [i \in DOMAIN columnData |-> <<columnData[i]>>]
         [] sel.selectionType = "row" /\ sel.row # 0 ->
              <<extractRowData(sheet, sel.row)>>
         [] OTHER -> sheet
  /\ columnReference' =
       IF sel.selectionType = "column" /\ sel.column # NoColumn
       THEN sel.column ELSE NoColumn
  /\ UNCHANGED <<sver, cver, srvVars, cliVars, turnVars, libVars, sheet, context>>

\* handleLLMRequest, selection phase: a sample of the sheet.
RenderSample ==
  /\ selection = NoSelection
  /\ context = << >>
  /\ context' = Append(context,
                  Formatted("sample", sheet, TRUE, SelectionSampleRows, NoColumn))
  /\ UNCHANGED <<sver, cver, srvVars, cliVars, turnVars, libVars,
                 sheet, selection, relevantData, columnReference>>

\* handleLLMRequest, analysis phase: the selected data or the full data.
RenderContext ==
  /\ Len(context) <= 1
  /\ \A i \in DOMAIN context : context[i].site = "sample"
  /\ context' = Append(context,
       IF selection = NoSelection
       THEN Formatted("full", sheet, FALSE, DefaultSampleRows, NoColumn)
       ELSE IF selection.selectionType = "column" /\ columnReference # NoColumn
       THEN Formatted("selected", relevantData, FALSE, 0, columnReference)
       ELSE Formatted("selected", relevantData, FALSE, DefaultSampleRows, NoColumn))
  /\ UNCHANGED <<sver, cver, srvVars, cliVars, turnVars, libVars,
                 sheet, selection, relevantData, columnReference>>

\* formatSpreadsheetData called with any arguments.
Format(sampleMode, maxSampleRows, originalColumn) ==
  /\ context = << >>
  /\ context' = Append(context,
       Formatted("any", spreadsheetData, sampleMode, maxSampleRows, originalColumn))
  /\ UNCHANGED <<sver, cver, srvVars, cliVars, turnVars, libVars,
                 sheet, selection, relevantData, columnReference>>

\* The same call once more.
FormatAgain ==
  /\ Len(context) = 1
  /\ context[1].site = "any"
  /\ LET c == context[1] IN
     context' = Append(context,
       Formatted("any", c.data, c.sampleMode, c.maxSampleRows, c.originalColumn))
  /\ UNCHANGED <<sver, cver, srvVars, cliVars, turnVars, libVars,
                 sheet, selection, relevantData, columnReference>>

----------------------------------------------------------------------------
(* Properties of the rendering *)

TagsOf(text) ==
  UNION {{text.lines[i][j] : j \in DOMAIN text.lines[i]} : i \in DOMAIN text.lines}

RECURSIVE TagCount(_, _)
TagCount(text, n) ==
  IF n = 0 THEN 0 ELSE TagCount(text, n - 1) + Len(text.lines[n])

ColumnSelected ==
  /\ selection.selectionType = "column"
  /\ columnReference # NoColumn

\* The non-empty cells of column X of the sheet, tagged X1, X2, ...
ColumnTags(X) ==
  {Tag(X, r, CellAt(sheet, r - 1, ColumnIndex(X))) :
     r \in {q \in 1..Len(sheet) : ~isEmpty(CellAt(sheet, q - 1, ColumnIndex(X)))}}

\* C26: when the selection is a single column X and the resolved slice holds
\* one cell per row, the rendering of the selected data tags every non-empty
\* cell of the column with X followed by the row number of the cell in the
\* sheet, for every column letter X, and never counts the column from A.
C26_ColumnKeepsItsLetter ==
  \A i \in DOMAIN context :
    (context[i].site = "selected" /\ ColumnSelected)
      => /\ TagsOf(context[i].text) = ColumnTags(columnReference)
         /\ TagCount(context[i].text, Len(context[i].text.lines))
              = Cardinality(ColumnTags(columnReference))

\* Column B is selected and rendered with cells in two rows.
C26_Witness ==
  \E i \in DOMAIN context :
    /\ context[i].site = "selected"
    /\ ColumnSelected
    /\ columnReference = getColumnRef(1)
    /\ Len(context[i].text.lines) = 2

\* The place in the sheet of the cell at the 0-based place (i, j) of the
\* resolved slice.
Origin(i, j) ==
  CASE selection = NoSelection -> <<i, j>>
    [] selection.selectionType = "range" /\ selection.range # NoRange ->
         <<selection.range.startRow + i, selection.range.startCol + j>>
    [] selection.selectionType = "row" /\ selection.row # 0 ->
         <<selection.row - 1, j>>
    [] OTHER -> <<i, j>>

\* The non-empty cells of the slice, each tagged with its place in the sheet.
SheetTags(data) ==
  {Tag(getColumnRef(Origin(i - 1, j - 1)[2]), Origin(i - 1, j - 1)[1] + 1, data[i][j]) :
     <<i, j>> \in {p \in (1..Len(data)) \X (1..MaxColumns(data)) :
                     /\ p[2] \in DOMAIN data[p[1]]
                     /\ ~isEmpty(data[p[1]][p[2]])}}

\* C27: in the rendering of a resolved slice for the analysis phase (a range
\* or row selection, or the full sheet), every non-empty cell is tagged with
\* the column letter and row number of its place in the sheet, and empty
\* cells and rows are left out without shifting the other references.
C27_ReferencesIdentifySheetCells ==
  \A i \in DOMAIN context :
    (context[i].site \in {"selected", "full"} /\ ~ColumnSelected)
      => TagsOf(context[i].text) = SheetTags(context[i].data)

----------------------------------------------------------------------------
(* The compact context of contextWindowUtils *)

MAX_CELLS_FULL_CONTEXT == 500
MAX_SAMPLE_ROWS == 10
MAX_SAMPLE_COLS == 10

\* typeof cell: "7" stands for a cell that holds a number.
TypeOf(cell) == IF cell = "7" THEN "number" ELSE "string"

RECURSIVE NonEmptyCellCount(_, _)
NonEmptyCellCount(data, n) ==
  IF n = 0 THEN 0
  ELSE NonEmptyCellCount(data, n - 1)
         + Cardinality({j \in DOMAIN data[n] : ~isEmpty(data[n][j])})

isSpreadsheetTooLarge(data) ==
  NonEmptyCellCount(data, Len(data)) > MAX_CELLS_FULL_CONTEXT

inferHeaders(data) ==
  IF Len(data) < 2 THEN FALSE
  ELSE LET firstRow == data[1]
           secondRow == data[2]
           both == 1..Minimum(Len(firstRow), Len(secondRow))
           stringCount ==
             Cardinality({i \in both : TypeOf(firstRow[i]) = "string" /\ firstRow[i] # ""})
           differentTypes ==
             Cardinality({i \in both : TypeOf(firstRow[i]) # TypeOf(secondRow[i])})
       IN \/ stringCount * 10 > Len(firstRow) * 7
          \/ differentTypes * 2 > Len(firstRow)

\* The indices a, a + 1, ..., b - 1 in order.
Indices(a, b) == [i \in 1..(IF b > a THEN b - a ELSE 0) |-> a + i - 1]

\* The 0-based indices of the rows pushed to the sample, in the order pushed.
SampleRowIndices(rowCount, hasHeaders) ==
  LET h == IF hasHeaders THEN 1 ELSE 0
      dataRowCount == rowCount - h
      sampleRowCount == Minimum(dataRowCount, MAX_SAMPLE_ROWS)
      step == dataRowCount \div (sampleRowCount - 4)
      middle == [i \in 1..Minimum(sampleRowCount - 4, dataRowCount - 4) |->
                   h + 2 + (i - 1) * step]
  IN Indices(0, h) \o
     (IF sampleRowCount <= 3 THEN Indices(h, rowCount)
      ELSE Indices(h, Minimum(h + 2, rowCount))
           \o (IF dataRowCount > 5
               THEN SelectSeq(middle, LAMBDA rowIndex : rowIndex < rowCount)
               ELSE << >>)
           \o Indices(Maximum({h, rowCount - 2}), rowCount))

sampleSpreadsheet(data) ==
  IF data = << >> THEN << << >> >>
  ELSE LET colCount == Minimum(MaxColumns(data), MAX_SAMPLE_COLS)
           rows == SampleRowIndices(Len(data), inferHeaders(data))
       IN [k \in DOMAIN rows |->
             SubSeq(data[rows[k] + 1], 1, Minimum(colCount, Len(data[rows[k] + 1])))]

isRowEmpty(row) == \A j \in DOMAIN row : isEmpty(row[j])

cleanSpreadsheetData(data) ==
  IF data = << >> THEN << << >> >>
  ELSE LET rowsFiltered == SelectSeq(data, LAMBDA row : ~isRowEmpty(row))
           nonEmptyColumns ==
             SelectSeq([c \in 1..MaxColumns(rowsFiltered) |-> c],
                       LAMBDA c : \E i \in DOMAIN rowsFiltered :
                                    ~isEmpty(CellAt(rowsFiltered, i - 1, c - 1)))
       IN IF rowsFiltered = << >> THEN << << >> >>
          ELSE [i \in DOMAIN rowsFiltered |->
                  [k \in DOMAIN nonEmptyColumns |->
                     CellAt(rowsFiltered, i - 1, nonEmptyColumns[k] - 1)]]

\* The compact context: its prefix and the rows of its CSV lines.
createSpreadsheetContext(data) ==
  IF data = << >> THEN [prefix |-> "[]", rows |-> << >>]
  ELSE LET cleanedData == cleanSpreadsheetData(data) IN
       IF isSpreadsheetTooLarge(cleanedData)
       THEN [prefix |-> IF inferHeaders(cleanedData)
                        THEN "sample:" ELSE "sample(no-headers):",
             rows |-> sampleSpreadsheet(cleanedData)]
       ELSE [prefix |-> "", rows |-> cleanedData]

\* createSpreadsheetContext called on the sheet.
Compact ==
  /\ selection = NoSelection
  /\ Len(context) <= 1
  /\ \A i \in DOMAIN context : context[i].site = "compact"
  /\ context' = Append(context,
       Rendering("compact", sheet, FALSE, 0, NoColumn, createSpreadsheetContext(sheet)))
  /\ UNCHANGED <<sver, cver, srvVars, cliVars, turnVars, libVars,
                 sheet, selection, relevantData, columnReference>>

InitFormat ==
  /\ InitProgram
  /\ sver = "llm"
  /\ cver = "page"
  /\ sheet \in Grids
  /\ InitSelection

NextFormat ==
  \/ \E sel \in DataSelections : ResolveSelection(sel)
  \/ RenderSample
  \/ RenderContext
  \/ \E sampleMode \in BOOLEAN, maxSampleRows \in 0..MaxRows,
        originalColumn \in Columns \cup {NoColumn} :
       Format(sampleMode, maxSampleRows, originalColumn)
  \/ FormatAgain
  \/ Compact

SpecFormat == InitFormat /\ [][NextFormat]_vars

TypeFormat == Len(context) <= 2

----------------------------------------------------------------------------
(* Sheets on both sides of the cell threshold *)

MaxLargeRows == 12
LargeWidth == 51

\* A sheet of n rows of LargeWidth cells: numbers, with a first row of
\* strings or of numbers and with row e empty (no row when e = 0).
LargeGrid(n, first, e) ==
  [i \in 1..n |->
     [j \in 1..LargeWidth |->
        IF i = e THEN "" ELSE IF i = 1 THEN first ELSE "7"]]

LargeGrids ==
  {LargeGrid(n, first, e) : n \in 0..MaxLargeRows, first \in {"v", "7"},
                            e \in 0..MaxLargeRows}

InitSample ==
  /\ InitProgram
  /\ sver = "llm"
  /\ cver = "page"
  /\ sheet \in LargeGrids
  /\ InitSelection

NextSample ==
  \/ Compact
  \/ RenderSample
  \/ RenderContext

SpecSample == InitSample /\ [][NextSample]_vars

\* The number of rows a rendering shows.
SampleSize(c) ==
  IF c.site = "compact" THEN Len(c.text.rows) ELSE Len(c.text.lines)

\* The count of omitted rows a rendering states, 0 when it states none: the
\* compact context has no such line.
OmittedRows(c) == IF c.site = "compact" THEN 0 ELSE c.text.more

\* C28: when the sheet has more non-empty cells than the threshold (500), the
\* context rendered for it is a sample that states the number of omitted
\* rows, and that number is the row count of the sheet less the size of the
\* sample.
C28_SampleStatesOmittedRows ==
  \A i \in DOMAIN context :
    (context[i].site \in {"compact", "full"} /\ isSpreadsheetTooLarge(context[i].data))
      => /\ OmittedRows(context[i]) > 0
         /\ OmittedRows(context[i]) = Len(context[i].data) - SampleSize(context[i])

\* The rendering has one tag for each non-empty cell of the grid and no
\* annotation of rows not shown.
FullyTagged(c) ==
  /\ TagCount(c.text, Len(c.text.lines)) = NonEmptyCellCount(c.data, Len(c.data))
  /\ \A t \in TagsOf(c.text) : ~isEmpty(t.cell)
  /\ c.text.more = 0

\* The rendering made by formatSpreadsheetData shows every row of its grid.
ShowsEveryRow(c) == ~c.sampleMode \/ Len(c.data) <= c.maxSampleRows

SampledIndices(c) ==
  LET cleanedData == cleanSpreadsheetData(c.data)
  IN SampleRowIndices(Len(cleanedData), inferHeaders(cleanedData))

\* C39: sampleSpreadsheet returns every selected row at most once and in
\* increasing order of its original row index, for every row count, with and
\* without a detected header row.
C39_SampleRowsIncrease ==
  \A i \in DOMAIN context :
    (context[i].site = "compact" /\ context[i].text.prefix \in {"sample:", "sample(no-headers):"})
      => \A k \in DOMAIN SampledIndices(context[i]) :
           k > 1 => SampledIndices(context[i])[k - 1] < SampledIndices(context[i])[k]

----------------------------------------------------------------------------
(* Structured output turned into cell updates: generateCellUpdates and
   convertTableToCellUpdates *)

MaxTableRows == 2
MaxTableCols == 3

\* The rows of a structured output: each row the cells between its commas.
TableRows == UNION {[1..n -> {"v"}] : n \in 0..MaxTableCols}
Tables == UNION {[1..n -> TableRows] : n \in 0..MaxTableRows}

\* Start cells: columns A, B, Y, Z, AA and AB, rows 1 and 2.
StartColumns == {<<1>>, <<2>>, <<25>>, <<26>>, <<1, 1>>, <<1, 2>>}
StartCells == {[col |-> c, row |-> n] : c \in StartColumns, n \in 1..2}

\* String.fromCharCode(colLetter.charCodeAt(0) + colIndex): one character,
\* the letter with the given number, and no letter at all above 26 (Z).
CharAfter(colLetter, colIndex) == <<colLetter[1] + colIndex>>

Update(colLetter, colIndex, rowNumber, value) ==
  [target |-> [col |-> CharAfter(colLetter, colIndex), row |-> rowNumber],
   formula |-> value]

\* "".split("\n") is [""] and "".split(",") is [""].
SplitRows(structuredOutput) ==
  IF structuredOutput = << >> THEN << << "" >> >>
  ELSE [i \in DOMAIN structuredOutput |->
          IF structuredOutput[i] = << >> THEN << "" >> ELSE structuredOutput[i]]

\* One row of updates for each row of the output.
generateCellUpdates(structuredOutput, startCell) ==
  LET outputRows == SplitRows(structuredOutput) IN
  [i \in DOMAIN outputRows |->
     [j \in DOMAIN outputRows[i] |->
        Update(startCell.col, j - 1, startCell.row + i - 1, outputRows[i][j])]]

RECURSIVE Flatten(_)
Flatten(rows) == IF rows = << >> THEN << >> ELSE Head(rows) \o Flatten(Tail(rows))

\* The updates of the headers, then those of the rows one below the other.
convertTableToCellUpdates(tableData, startCell) ==
  [j \in DOMAIN tableData.headers |->
     Update(startCell.col, j - 1, startCell.row, tableData.headers[j])]
  \o Flatten([i \in DOMAIN tableData.rows |->
       [j \in DOMAIN tableData.rows[i] |->
          Update(startCell.col, j - 1, startCell.row + i, tableData.rows[i][j])]])

\* A conversion with what it was made from; place[k] is the 0-based row and
\* column in the structured output of the value of update k.
Conversion(startCell, updates, place) ==
  [startCell |-> startCell, updates |-> updates, place |-> place]

Places(rows, firstRow) ==
  Flatten([i \in DOMAIN rows |-> [j \in DOMAIN rows[i] |-> <<firstRow + i - 1, j - 1>>]])

Generate(structuredOutput, startCell) ==
  /\ cellUpdates = << >>
  /\ cellUpdates' = <<Conversion(startCell,
                        Flatten(generateCellUpdates(structuredOutput, startCell)),
                        Places(SplitRows(structuredOutput), 0))>>
  /\ UNCHANGED <<sver, cver, srvVars, cliVars, turnVars, dataVars, sheetVars, pyVars, readVars>>

ConvertTable(tableData, startCell) ==
  /\ cellUpdates = << >>
  /\ cellUpdates' = <<Conversion(startCell,
                        convertTableToCellUpdates(tableData, startCell),
                        Places(<<tableData.headers>> \o tableData.rows, 0))>>
  /\ UNCHANGED <<sver, cver, srvVars, cliVars, turnVars, dataVars, sheetVars, pyVars, readVars>>

NextUpdates ==
  \/ \E structuredOutput \in Tables, startCell \in StartCells :
       Generate(structuredOutput, startCell)
  \/ \E headers \in TableRows, rows \in Tables, startCell \in StartCells :
       ConvertTable([headers |-> headers, rows |-> rows], startCell)

SpecUpdates == Init /\ [][NextUpdates]_vars

\* The column letters are letters.
ValidColumn(col) == col # << >> /\ \A k \in DOMAIN col : col[k] \in 1..26

\* C38: generateCellUpdates and convertTableToCellUpdates anchor the output
\* at the start cell: the value at row i, column j of the structured output
\* gets the target j columns to the right of the start column in row start
\* row plus i, in valid A1 notation, for every start cell, also for start
\* columns of several letters and offsets that pass column Z.
C38_UpdatesAnchoredAtStartCell ==
  \A c \in DOMAIN cellUpdates :
    \A k \in DOMAIN cellUpdates[c].updates :
      LET conv == cellUpdates[c]
          target == conv.updates[k].target
      IN /\ ValidColumn(target.col)
         /\ target.col = getColumnRef(ColumnIndex(conv.startCell.col) + conv.place[k][2])
         /\ target.row = conv.startCell.row + conv.place[k][1]

----------------------------------------------------------------------------
(* The sheet list of SpreadsheetContext *)

MaxSheets == 3

\* The state of the last render: what the functions of that render close over.
Rendered == [sheets |-> sheets, activeSheetId |-> activeSheetId]

\* The closures an operation can be called through: that of the last render
\* (the tab bar) and that of a handleSend still reading its stream.
Closures == {Rendered} \cup (IF handleSendSees = NoClosure THEN {} ELSE {handleSendSees})

Ids(list) == {list[i].id : i \in DOMAIN list}

\* generateSheetName: the first "Sheet k" no sheet of the list has.
generateSheetName(list) ==
  DefaultName(CHOOSE k \in 1..(Len(list) + 1) :
                /\ \A i \in DOMAIN list : list[i].name # DefaultName(k)
                /\ \A m \in 1..(k - 1) : \E i \in DOMAIN list : list[i].name = DefaultName(m))

\* setSheets(prev => prev.filter(sheet => sheet.id !== sheetId))
Without(prev, sheetId) == SelectSeq(prev, LAMBDA sh : sh.id # sheetId)

\* The 1-based index of the sheet in a list that holds it.
IndexOf(list, sheetId) == CHOOSE i \in DOMAIN list : list[i].id = sheetId

\* addSheet; throws: HyperFormula refuses the new sheet and nothing is set.
addSheet(seen, throws) ==
  /\ sheetCount < MaxSheets
  /\ IF throws THEN UNCHANGED <<sheets, activeSheetId, sheetCount>>
     ELSE /\ sheetCount' = sheetCount + 1
          /\ sheets' = Append(sheets,
                         Sheet(sheetCount + 1, generateSheetName(seen.sheets), "empty"))
          /\ activeSheetId' = sheetCount + 1
  /\ UNCHANGED <<sver, cver, srvVars, cliVars, turnVars, dataVars, cellUpdates, pyVars, readVars,
                 handleSendSees>>

\* removeSheet: the guard and the choice of the next active sheet read the
\* closure, the filter is applied to the list as it is.
removeSheet(seen, sheetId) ==
  /\ sheetId \in Ids(seen.sheets)
  /\ IF Len(seen.sheets) <= 1 THEN UNCHANGED <<sheets, activeSheetId>>
     ELSE /\ sheets' = Without(sheets, sheetId)
          /\ activeSheetId' =
               IF seen.activeSheetId = sheetId
               THEN LET sheetIndex == IndexOf(seen.sheets, sheetId)
                    IN seen.sheets[IF sheetIndex > 1 THEN sheetIndex - 1
                                   ELSE sheetIndex + 1].id
               ELSE activeSheetId
  /\ UNCHANGED <<sver, cver, srvVars, cliVars, turnVars, dataVars, cellUpdates, pyVars, readVars,
                 sheetCount, handleSendSees>>

\* setSheets(prev => prev.map(...)) for the sheet with the id.
Mapped(prev, sheetId, name, data) ==
  [i \in DOMAIN prev |->
     IF prev[i].id = sheetId
     THEN Sheet(sheetId, IF name = << >> THEN prev[i].name ELSE name,
                IF data = "" THEN prev[i].data ELSE data)
     ELSE prev[i]]

\* renameSheet; throws: HyperFormula refuses the name.
renameSheet(seen, sheetId, newName, throws) ==
  /\ sheetId \in Ids(seen.sheets)
  /\ sheets' = IF throws THEN sheets ELSE Mapped(sheets, sheetId, newName, "")
  /\ UNCHANGED <<sver, cver, srvVars, cliVars, turnVars, dataVars, cellUpdates, pyVars, readVars,
                 activeSheetId, sheetCount, handleSendSees>>

\* clearSheet; sheetExists: HyperFormula has a sheet with the hyperFormulaId.
clearSheet(seen, sheetId, sheetExists) ==
  /\ sheetId \in Ids(seen.sheets)
  /\ sheets' = IF sheetExists THEN Mapped(sheets, sheetId, << >>, "empty") ELSE sheets
  /\ UNCHANGED <<sver, cver, srvVars, cliVars, turnVars, dataVars, cellUpdates, pyVars, readVars,
                 activeSheetId, sheetCount, handleSendSees>>

\* updateSheetData with data that is not empty.
updateSheetData(seen, sheetId) ==
  /\ sheetId \in Ids(seen.sheets)
  /\ sheets' = Mapped(sheets, sheetId, << >>, "filled")
  /\ UNCHANGED <<sver, cver, srvVars, cliVars, turnVars, dataVars, cellUpdates, pyVars, readVars,
                 activeSheetId, sheetCount, handleSendSees>>

\* handleSend is called: its sheet functions are those of the last render.
HandleSendBegins ==
  /\ handleSendSees = NoClosure
  /\ handleSendSees' = Rendered
  /\ UNCHANGED <<sver, cver, srvVars, cliVars, turnVars, dataVars, cellUpdates, pyVars, readVars,
                 sheets, activeSheetId, sheetCount>>

HandleSendEnds ==
  /\ handleSendSees # NoClosure
  /\ handleSendSees' = NoClosure
  /\ UNCHANGED <<sver, cver, srvVars, cliVars, turnVars, dataVars, cellUpdates, pyVars, readVars,
                 sheets, activeSheetId, sheetCount>>

SheetIds == 1..MaxSheets
NewNames == {<<"Data", 0>>}

NextSheets ==
  \/ \E seen \in Closures, throws \in BOOLEAN : addSheet(seen, throws)
  \/ \E seen \in Closures, sheetId \in SheetIds : removeSheet(seen, sheetId)
  \/ \E seen \in Closures, sheetId \in SheetIds, newName \in NewNames, throws \in BOOLEAN :
       renameSheet(seen, sheetId, newName, throws)
  \/ \E seen \in Closures, sheetId \in SheetIds, sheetExists \in BOOLEAN :
       clearSheet(seen, sheetId, sheetExists)
  \/ \E seen \in Closures, sheetId \in SheetIds : updateSheetData(seen, sheetId)
  \/ HandleSendBegins
  \/ HandleSendEnds

SpecSheets == Init /\ [][NextSheets]_vars

\* C40: after any sequence of addSheet, removeSheet, renameSheet and
\* clearSheet operations the sheet list holds at least one sheet and
\* activeSheetId is the id of a sheet of the list.
C40_ActiveSheetExists ==
  /\ sheets # << >>
  /\ activeSheetId \in Ids(sheets)

----------------------------------------------------------------------------
(* Properties of the PyodideSandbox of a request *)

Initializing(r) == pc[r] \in {"await_init", "h_init"}
Executing(r) == pc[r] \in {"await_run", "h_run"}

\* The position in began[r] of the first entry e, 0 if there is none.
FirstBegan(r, e) ==
  IF \E i \in DOMAIN began[r] : began[r][i] = e
  THEN CHOOSE i \in DOMAIN began[r] :
         began[r][i] = e /\ \A j \in 1..(i - 1) : began[r][j] # e
  ELSE 0

\* C32: on the PyodideSandbox of a request the operations occur in the order
\* create, initialize, execute, destroy: runDataAnalysis is called only on
\* an instance whose initialize() has completed and on which destroy() was
\* not called, and once destroy() has been called the instance is neither
\* initialized nor executed on again.
C32_SandboxLifecycleOrder ==
  \A r \in Req :
    sver # "stream" =>
      /\ Initializing(r) => sb[r].created = 1 /\ sb[r].destroyCalls = 0
      /\ Executing(r) =>
           /\ sb[r].initialized /\ sb[r].pyodide
           /\ sb[r].destroyCalls = 0
      /\ FirstBegan(r, "sandbox_execute") > 0 =>
           /\ FirstBegan(r, "sandbox_initialize") > 0
           /\ FirstBegan(r, "sandbox_initialize") < FirstBegan(r, "sandbox_execute")
      /\ sb[r].destroyCalls > 0 => ~Initializing(r) /\ ~Executing(r)
      /\ sb[r].completed > 0 => ~sb[r].initialized /\ ~sb[r].pyodide

\* A request has created, initialized, executed on and destroyed its sandbox.
C32_Witness ==
  \E r \in Req :
    /\ sver = "llm"
    /\ FirstBegan(r, "sandbox_execute") > 0
    /\ run[r] = "ok"
    /\ sb[r].completed > 0
    /\ pc[r] = "done"

----------------------------------------------------------------------------
(* The class PyodideSandbox: one instance and the calls of its methods *)

MaxLoads == 3

At(c, op, at, how) == act' = [act EXCEPT ![c] = [op |-> op, at |-> at, how |-> how]]

Others == <<sver, cver, srvVars, cliVars, turnVars, dataVars, cellUpdates, sheetVars, readVars>>

\* initialize() is called: it returns at once on an initialized instance,
\* else loadPyodide begins.
InitializeCalled(c) ==
  /\ act[c] = Idle
  /\ At(c, "initialize", IF py.initialized THEN "returned" ELSE "load", "none")
  /\ UNCHANGED <<Others, py, loads, running>>

\* loadPyodide settles: this.pyodide is assigned, or the call throws.
LoadPyodideSettles(c, ok) ==
  /\ act[c].at = "load"
  /\ loads < MaxLoads
  /\ IF ok
     THEN /\ py' = [py EXCEPT !.pyodide = TRUE]
          /\ loads' = loads + 1
          /\ At(c, act[c].op, "packages", "none")
     ELSE /\ At(c, act[c].op, "threw", "none")
          /\ UNCHANGED <<py, loads>>
  /\ UNCHANGED <<Others, running>>

\* loadPackagesFromImports settles: initialized is set and initialize()
\* resolves, or the call throws.  A runDataAnalysis that awaited it resumes.
LoadPackagesSettle(c, ok) ==
  /\ act[c].at = "packages"
  /\ IF ok
     THEN /\ py' = [py EXCEPT !.initialized = TRUE]
          /\ At(c, act[c].op, IF act[c].op = "run" THEN "resume" ELSE "returned", "none")
     ELSE /\ At(c, act[c].op, "threw", "none")
          /\ UNCHANGED py
  /\ UNCHANGED <<Others, loads, running>>

\* runDataAnalysis from `if (!this.pyodide)` to the race: it throws without
\* a runtime, returns the error of a failed setup, or starts the code.
RunBody(c, setup) ==
  IF ~py.pyodide
  THEN At(c, "run", "threw", "none") /\ UNCHANGED running
  ELSE IF ~setup
  THEN At(c, "run", "returned", "error") /\ UNCHANGED running
  ELSE At(c, "run", "race", "none") /\ running' = running \cup {c}

\* runDataAnalysis is called: an uninitialized instance is initialized first.
RunCalled(c, setup) ==
  /\ act[c] = Idle
  /\ IF ~py.initialized
     THEN At(c, "run", "load", "none") /\ UNCHANGED running
     ELSE RunBody(c, setup)
  /\ UNCHANGED <<Others, py, loads>>

RunResumes(c, setup) ==
  /\ act[c].at = "resume"
  /\ RunBody(c, setup)
  /\ UNCHANGED <<Others, py, loads>>

\* The race settles.  runPythonAsync settled: the code has ended.  The timer
\* rejected: nothing is done to the code, which stays in the runtime.
RaceLeaves(c, how) == IF how = "timeout" THEN running ELSE running \ {c}

RaceSettles(c, how) ==
  /\ act[c].at = "race"
  /\ At(c, "run", "returned", how)
  /\ running' = RaceLeaves(c, how)
  /\ UNCHANGED <<Others, py, loads>>

\* Code that lost the race comes to its end.
UserCodeEnds(c) ==
  /\ c \in running
  /\ act[c].at # "race"
  /\ running' = running \ {c}
  /\ UNCHANGED <<Others, py, act, loads>>

\* destroy() is called: with a runtime the cleanup is awaited, without one
\* the fields are reset at once.
DestroyIsCalled(c) ==
  /\ act[c] = Idle
  /\ IF py.pyodide
     THEN At(c, "destroy", "cleanup", "none") /\ UNCHANGED <<py, loads>>
     ELSE /\ At(c, "destroy", "returned", "none")
          /\ py' = [pyodide |-> FALSE, initialized |-> FALSE]
          /\ loads' = 0
  /\ UNCHANGED <<Others, running>>

DestroySettles(c) ==
  /\ act[c].at = "cleanup"
  /\ At(c, "destroy", "returned", "none")
  /\ py' = [pyodide |-> FALSE, initialized |-> FALSE]
  /\ loads' = 0
  /\ UNCHANGED <<Others, running>>

\* The caller has the outcome of the call.
Settled(c) ==
  /\ act[c].at \in {"returned", "threw"}
  /\ act' = [act EXCEPT ![c] = Idle]
  /\ UNCHANGED <<Others, py, loads, running>>

NextSandbox ==
  \E c \in PyCall :
    \/ InitializeCalled(c)
    \/ \E ok \in BOOLEAN : LoadPyodideSettles(c, ok)
    \/ \E ok \in BOOLEAN : LoadPackagesSettle(c, ok)
    \/ \E setup \in BOOLEAN : RunCalled(c, setup)
    \/ \E setup \in BOOLEAN : RunResumes(c, setup)
    \/ \E how \in {"value", "error", "timeout"} : RaceSettles(c, how)
    \/ UserCodeEnds(c)
    \/ DestroyIsCalled(c)
    \/ DestroySettles(c)
    \/ Settled(c)

SpecSandbox == Init /\ [][NextSandbox]_vars

\* C33: initialize() on an initialized instance loads nothing and leaves the
\* instance unchanged, and over any calls of initialize and runDataAnalysis
\* on one instance, overlapping ones included, the runtime is loaded at most
\* once until destroy() is called.
C33_RuntimeLoadedOnce ==
  /\ loads <= 1
  /\ \A c \in PyCall :
       (act[c].op = "initialize" /\ act[c].at = "returned") => py.initialized \/ loads = 0

\* C34: when the timer has won the race in runDataAnalysis, the code of the
\* call is no longer executing in the runtime once the call has returned, so
\* that none is running when destroy() is called after it.
C34_TimedOutCodeStopped ==
  \A c \in PyCall :
    (act[c].op = "run" /\ act[c].at = "returned" /\ act[c].how = "timeout")
      => c \notin running

----------------------------------------------------------------------------
(* Client: the read loops of handleSend and the transport.  The server
   writes each frame as "data: " + JSON + "\n\n"; reader.read() returns the
   bytes of the response in chunks whose boundaries the transport chooses.
   A frame is cut here into five pieces, one for each place a boundary can
   fall with a different effect:
     1  a proper prefix of "data: "
     2  the rest of "data: " and a proper prefix of the JSON text
     3  the rest of the JSON text
     4  the first "\n"
     5  the second "\n"
   and a read returns any number of the pieces not yet delivered. *)

\* Bound: text fragments a streamed response carries before its last frame.
MaxFragments == 2

\* The pieces of the frame `data: {...}\n\n`.
FramePieces == <<"da", "ta: {", "...}", "\n", "\n">>

PiecesPerFrame == Len(FramePieces)

\* The frames of a response.  text is the response field, a sequence of
\* tokens, << >> for "" or no field.
WireFrame(k, t, u, c) == [kind |-> k, text |-> t, updates |-> u, chart |-> c]

\* { response: content, streaming: true }
Fragment(i) == WireFrame("fragment", <<i>>, FALSE, FALSE)

\* accumulatedContent after k fragments.
AccumulatedContent(k) == [i \in 1..k |-> i]

\* { ...toolData, streaming: false } and { response: accumulatedContent,
\* streaming: false } of the streaming controller after k fragments.
Terminals(k) ==
  { WireFrame("terminal", AccumulatedContent(k), FALSE, FALSE),
    WireFrame("terminal", AccumulatedContent(k) \o <<"updates">>, TRUE, FALSE),
    WireFrame("terminal", AccumulatedContent(k) \o <<"chart">>, FALSE, TRUE),
    WireFrame("terminal", <<"analysis">>, TRUE, FALSE) }

\* { dataSelectionResult: ... }
SelectionFrame == WireFrame("selection", << >>, FALSE, FALSE)

\* { error: message }
ErrorEvent == WireFrame("error", << >>, FALSE, FALSE)

\* What a response can consist of: the fragments, then the terminal frame,
\* the error frame of the catch, or nothing when the request was aborted; a
\* selection response carries the selection frame.
Responses ==
  LET Fragments(k) == [i \in 1..k |-> Fragment(i)] IN
  UNION { { Fragments(k) \o <<t>> : t \in Terminals(k) \cup {ErrorEvent} }
          \cup { Fragments(k) } : k \in 0..MaxFragments }
  \cup { <<SelectionFrame>>, <<ErrorEvent, SelectionFrame>> }

\* The response as the pieces of its frames; n is the place of the frame.
Wire(fs) ==
  [j \in 1..(PiecesPerFrame * Len(fs)) |->
     [n |-> ((j - 1) \div PiecesPerFrame) + 1,
      frame |-> fs[((j - 1) \div PiecesPerFrame) + 1],
      part |-> ((j - 1) % PiecesPerFrame) + 1]]

\* The place of the first "\n\n" in text, 0 if there is none.
RECURSIVE IndexOfTerminator(_, _)
IndexOfTerminator(text, i) ==
  IF i >= Len(text) THEN 0
  ELSE IF text[i].part = 4 /\ text[i + 1].part = 5 THEN i
  ELSE IndexOfTerminator(text, i + 1)

\* text.split("\n\n")
RECURSIVE SplitEvents(_)
SplitEvents(text) ==
  LET i == IndexOfTerminator(text, 1) IN
  IF i = 0 THEN <<text>>
  ELSE <<SubSeq(text, 1, i - 1)>> \o SplitEvents(SubSeq(text, i + 2, Len(text)))

\* text.split("\n\n").filter(Boolean)
Events(text) == SelectSeq(SplitEvents(text), LAMBDA e : e # << >>)

\* chunk.lastIndexOf("\n\n"), and the chunk cut after it.
RECURSIVE LastIndexOfTerminator(_, _)
LastIndexOfTerminator(text, i) ==
  IF i < 1 THEN 0
  ELSE IF text[i].part = 4 /\ text[i + 1].part = 5 THEN i
  ELSE LastIndexOfTerminator(text, i - 1)

RemoveProcessed(text) ==
  LET i == LastIndexOfTerminator(text, Len(text) - 1) IN
  IF i = 0 THEN text ELSE SubSeq(text, i + 2, Len(text))

\* event.startsWith("data: ")
StartsWithData(e) == Len(e) >= 2 /\ e[1].part = 1 /\ e[2].part = 2

\* JSON.parse(event.substring(6)) returns: the JSON text is whole, whatever
\* white space follows it.
Parses(e) == Len(e) >= 3 /\ e[3].part = 3

\* resolve(v): only the first call settles the promise.
Settle(p, by) == IF p = "pending" THEN by ELSE p

\* What a loop holds while it handles the events of one read.
ReadState == [observed |-> observed, message |-> message, promise |-> promise,
              reader |-> reader]

\* The phase-1 loop handles a parsed frame: the first frame it recognises
\* updates the message, resolves the promise and ends the loop; the throw
\* for an error frame is caught by the try around JSON.parse.
HandleSelection(st, f) ==
  LET done == [st EXCEPT !.promise = Settle(@, "frame"), !.reader = "returned"] IN
  CASE f.kind = "selection" ->
         [done EXCEPT !.message.response = <<"analyzing">>]
    [] f.kind # "selection" /\ f.updates ->
         [done EXCEPT !.message.response = f.text, !.message.updates = TRUE,
                      !.message.status = "completed"]
    [] f.kind # "selection" /\ ~f.updates /\ f.chart ->
         [done EXCEPT !.message.response = f.text, !.message.chart = TRUE,
                      !.message.status = "completed"]
    [] f.kind \in {"fragment", "terminal"} /\ ~f.updates /\ ~f.chart
         /\ f.text # << >> ->
         [done EXCEPT !.message.response = f.text, !.message.status = "completed"]
    [] OTHER -> st

\* The phase-2 loop of src/app/page.tsx handles a parsed frame.
HandleAnalysis(st, f) ==
  [st EXCEPT !.message.response = IF f.text # << >> THEN f.text ELSE @,
             !.message.updates = f.updates \/ @,
             !.message.chart = f.chart \/ @,
             !.message.status = IF f.updates \/ f.chart THEN "completed" ELSE @]

\* A loop that would append the text of every frame.
AccumulateAlways(accumulatedResponse, f) == accumulatedResponse \o f.text

\* accumulatedResponse after a frame with a response: a streaming frame is
\* appended, the frame with streaming: false replaces the text.
Accumulate(accumulatedResponse, f) ==
  IF f.kind = "fragment" THEN accumulatedResponse \o f.text ELSE f.text

\* The streaming loop handles a parsed frame: accumulatedResponse, updates
\* and chartData are set from a frame with a response, and the message is
\* set from them after every frame.
HandleStreamed(st, f) ==
  LET withResponse == f.text # << >>
      u == IF withResponse THEN f.updates ELSE st.message.updates
      c == IF withResponse THEN f.chart ELSE st.message.chart
  IN  [st EXCEPT !.message.response =
                    IF withResponse THEN Accumulate(@, f) ELSE @,
                 !.message.updates = u,
                 !.message.chart = c,
                 !.message.status = IF u \/ c THEN "pending" ELSE "null"]

\* The catch of handleSend for the SyntaxError of JSON.parse.
HandleSyntaxError(st) ==
  [st EXCEPT !.message.response = <<"Error">>, !.message.status = "null",
             !.reader = "threw"]

\* One event of a read.
HandleEvent(l, st, e) ==
  IF ~StartsWithData(e) THEN st
  ELSE IF ~Parses(e)
  THEN IF l = "phase2" THEN HandleSyntaxError(st) ELSE st
  ELSE LET seen == [st EXCEPT !.observed = Append(@, e[1].n)] IN
       CASE l = "phase1" -> HandleSelection(seen, e[1].frame)
         [] l = "phase2" -> HandleAnalysis(seen, e[1].frame)
         [] OTHER        -> HandleStreamed(seen, e[1].frame)

\* for (const event of events), left by a return or a throw.
RECURSIVE HandleEvents(_, _, _)
HandleEvents(l, st, es) ==
  IF es = << >> \/ st.reader # "reading" THEN st
  ELSE HandleEvents(l, HandleEvent(l, st, Head(es)), Tail(es))

ReadLoops == {"phase1", "phase2", "stream"}

\* fetch resolves: the response fs begins to arrive and loop l reads it.
ResponseArrives(l, fs) ==
  /\ reader = "idle"
  /\ loop' = l
  /\ wire' = Wire(fs)
  /\ reader' = "reading"
  /\ UNCHANGED <<sver, cver, srvVars, cliVars, turnVars, dataVars, cellUpdates,
                 sheetVars, pyVars, delivered, buffer, observed, promise, message>>

\* reader.read() returns the next k pieces and the loop handles them.  Only
\* the phase-1 loop keeps text between reads.
ReadReturns(k) ==
  /\ reader = "reading"
  /\ delivered + k <= Len(wire)
  /\ LET value == SubSeq(wire, delivered + 1, delivered + k)
         chunk == IF loop = "phase1" THEN buffer \o value ELSE value
         st    == HandleEvents(loop, ReadState, Events(chunk))
     IN  /\ observed' = st.observed
         /\ message' = st.message
         /\ promise' = st.promise
         /\ reader' = st.reader
         /\ buffer' = IF loop = "phase1" /\ st.reader = "reading"
                      THEN RemoveProcessed(chunk) ELSE buffer
  /\ delivered' = delivered + k
  /\ UNCHANGED <<sver, cver, srvVars, cliVars, turnVars, dataVars, cellUpdates,
                 sheetVars, pyVars, loop, wire>>

\* reader.read() reports done: the phase-1 loop resolves with the fallback,
\* the streaming loop makes its final update from its variables.
ReadDone ==
  /\ reader = "reading"
  /\ delivered = Len(wire)
  /\ reader' = "ended"
  /\ promise' = IF loop = "phase1" THEN Settle(promise, "fallback") ELSE promise
  /\ message' = IF loop = "stream"
                THEN [message EXCEPT !.status =
                        IF message.updates \/ message.chart THEN "pending" ELSE "null"]
                ELSE message
  /\ UNCHANGED <<sver, cver, srvVars, cliVars, turnVars, dataVars, cellUpdates,
                 sheetVars, pyVars, loop, wire, delivered, buffer, observed>>

\* The timer of the phase-1 promise fires: resolve with the fallback.  The
\* loop is not stopped.
SelectionTimeout ==
  /\ loop = "phase1"
  /\ promise = "pending"
  /\ promise' = "timeout"
  /\ UNCHANGED <<sver, cver, srvVars, cliVars, turnVars, dataVars, cellUpdates,
                 sheetVars, pyVars, loop, wire, delivered, buffer, observed,
                 reader, message>>

NextReads ==
  \/ \E l \in ReadLoops, fs \in Responses : ResponseArrives(l, fs)
  \/ \E k \in 1..(PiecesPerFrame * (MaxFragments + 1)) : ReadReturns(k)
  \/ ReadDone
  \/ SelectionTimeout

SpecReads == Init /\ [][NextReads]_vars

\* The frame at place n of the response.
FrameAt(n) == wire[PiecesPerFrame * n].frame

\* The frames the reads have delivered whole, terminator included.
DeliveredFrames == {n \in 1..(Len(wire) \div PiecesPerFrame) : PiecesPerFrame * n <= delivered}

\* C36: the client observes every frame the server writes exactly once and
\* in order, however the transport cuts the response into chunks: the frames
\* a loop has handled are in the order written and none twice, and while the
\* loop runs, and when the stream has ended, every frame delivered whole has
\* been handled.
C36_EveryFrameOnceInOrder ==
  /\ \A i, j \in DOMAIN observed : i < j => observed[i] < observed[j]
  /\ reader \in {"reading", "ended"} =>
       \A n \in DeliveredFrames : \E i \in DOMAIN observed : observed[i] = n

\* The texts of the fragments among the handled frames, in order.
RECURSIVE FragmentsText(_)
FragmentsText(ns) ==
  IF ns = << >> THEN << >>
  ELSE (IF FrameAt(Head(ns)).kind = "fragment" THEN FrameAt(Head(ns)).text ELSE << >>)
       \o FragmentsText(Tail(ns))

\* The last terminal frame among the handled frames, 0 if there is none.
LastTerminal ==
  LET T == {i \in DOMAIN observed : FrameAt(observed[i]).kind = "terminal"} IN
  IF T = {} THEN 0 ELSE observed[CHOOSE i \in T : \A j \in T : j <= i]

\* C37: in the streaming loop, the response of the turn is the text of the
\* fragments handled so far, in the order they arrived, until the terminal
\* frame (streaming: false) is handled; from then on the response, the
\* updates and the chart of the turn are exactly those of the terminal frame.
C37_TerminalFrameReplaces ==
  (loop = "stream" /\ reader \in {"reading", "ended"}) =>
    IF LastTerminal = 0
    THEN message.response = FragmentsText(observed)
    ELSE /\ message.response = FrameAt(LastTerminal).text
         /\ message.updates = FrameAt(LastTerminal).updates
         /\ message.chart = FrameAt(LastTerminal).chart

\* The terminal frame of a code run has replaced the two fragments that were
\* handled before it.
C37_Witness ==
  /\ loop = "stream"
  /\ observed = <<1, 2, 3>>
  /\ FrameAt(3).kind = "terminal"
  /\ FrameAt(3).text = <<"analysis">>
  /\ message.response = <<"analysis">>
  /\ message.updates

\* The step handles a selection frame.
HandlesSelectionFrame ==
  /\ Len(observed') > Len(observed)
  /\ FrameAt(observed'[Len(observed')]).kind = "selection"

\* C35: once the promise of phase 1 has been resolved by its timer with the
\* fallback, a selection frame that arrives later on the phase-1 stream
\* changes neither what the promise was resolved with nor the response and
\* the status of the turn's message.
C35_LateSelectionChangesNothing ==
  [][(loop = "phase1" /\ promise = "timeout" /\ HandlesSelectionFrame) =>
       /\ promise' = promise
       /\ message'.response = message.response
       /\ message'.status = message.status]_vars

----------------------------------------------------------------------------
(* Termination of a turn.  The server, the transport and the client are
   scheduled fairly: every step of a handler that is not the loss of the
   connection, and every step of handleSend and of its timer, is taken when
   it stays possible.  The user's stop and the loss of a connection are not
   owed to the turn. *)

\* A step of the controller of request r other than the loss of its
\* connection.
ServerRuns(r) == ServerStep(r) /\ connDown' = connDown

\* A step of handleSend, of its read loops or of its timer, other than the
\* user's stop.
ClientRuns == ClientStep /\ signal' = signal

SpecLive ==
  /\ Init
  /\ [][Next]_vars
  /\ \A r \in Req : WF_vars(ServerRuns(r))
  /\ WF_vars(ClientRuns)

\* C31: every turn eventually reaches Completed or Aborted: once handleSend
\* has been called it returns, with the turn recorded as completed or as
\* stopped.
C31_EveryTurnEnds ==
  (cpc # "idle") ~> (cpc = "done" /\ outcome \in {"completed", "aborted"})

====
